---- MODULE Spec2Model ----
(***************************************************************************)
(* A model of the drug-leaflet knowledge-graph pipeline:                   *)
(*   clean_kg.py              the KG cleaner                               *)
(*   scripts/build_kg_csv.py  the transcript parser, normalizer, emitter   *)
(*   scripts/extract_information.py  the batch extraction and its LLM call *)
(*   scripts/postprocess_kg.py       the entity-shortening pass            *)
(*                                                                         *)
(* Text is a sequence of symbols.  A symbol is a one-character string, or  *)
(* (in transcripts) a fixed phrase that the programs only ever compare as  *)
(* a whole: a canonical question text, a file name, a word of an answer.   *)
(* Each script is a specification of its own (SpecClean, SpecDosage, ...): *)
(* the scripts share no state but the files they hand to one another.      *)
(***************************************************************************)
EXTENDS Integers, Sequences, FiniteSets, TLC

VARIABLES
    kgFiles,            \* clean_kg: the CSV files, kgFiles[1] the input, kgFiles[k+1] the output of run k
    dosage_lines,        \* extract_dosage_values: its argument
    dosePc,             \* extract_dosage_values: "call" before, "done" after
    processed_dosages,  \* extract_dosage_values: its result
    lines,              \* build_kg_csv: the transcript, line by line (file.readlines())
    lineNo,             \* build_kg_csv: the line the loop is at (i + 1)
    current_pdf,        \* build_kg_csv: the source of the newest marker line
    drug_name_mapping,  \* build_kg_csv: source -> drug name
    data,               \* build_kg_csv: the triples appended so far
    origin,             \* history: origin[k] is the line of the question data[k] came from
    csv_out,            \* build_kg_csv: the rows written to --output
    buildPc,            \* build_kg_csv: "loop", "done" or "crashed"
    medical_terms,      \* build_kg_csv: the vocabulary of --terms
    ner_ents,           \* the words the NER model recognises
    near_score,         \* the score WRatio gives the pairs of NearPairs
    llmStage,           \* query_model: "extract" (extract_information) or "post" (postprocess_kg)
    llmSite,            \* query_model: the call site
    llmContext,         \* query_model: its context argument
    llmAttempt,         \* query_model: attempt of "for attempt in range(retries)"
    llmPc,              \* query_model: "try", "returned", "raised"; "done" once the site has its value
    llmResult,          \* query_model: the value returned
    llmTrace,           \* history: the requests, their outcomes and the sleeps of the call
    siteValue,          \* the value the call site computes from the result
    entity_cache,       \* postprocess_kg: context -> result
    post_df,            \* postprocess_kg phase 2: df, rows of <<Subject, Object>>
    col,                \* postprocess_kg: index into columns_to_clean
    row_name,           \* postprocess_kg: the row df.apply is at
    applied,            \* postprocess_kg: the values df.apply has computed for col
    postPc,             \* postprocess_kg: "apply", "call", "written", "crashed"
    postLog,            \* history: how each long or cached cell got its value
    pdf_dir,            \* extract_information: the sorted .pdf names of folder_path
    output_txt,         \* extract_information: the lines of the transcript file
    batchPc,            \* process_pdfs: "file", "name", "question", "end", "finished", "stopped"
    file_ix,            \* process_pdfs: index of filename in the sorted list
    question_ix,        \* process_pdfs: index into questions
    run_no,             \* the number of the batch run
    llm_failures,       \* the query_model calls that returned None so far
    skipped,            \* history: the files skipped as already processed
    interrupted,        \* history: the files in flight at an interrupt
    attempts,           \* history: the text extractions, <<run, index of the file, outcome>>
    marked,             \* history: <<run, filename>> of each block marker written
    asked,              \* history: <<run, filename>> of the documents query_model was called for
    fn,                 \* the function a run applies to a value of its own
    fn_vals,            \* the value and the results of applying fn to it again and again
    pdf_text,           \* extract_text_worker: what PdfReader makes of the file
    process,            \* extract_text_from_pdf: the worker process
    result_queue,       \* extract_text_from_pdf: the queue, its buffer and its pipe
    elapsed,            \* extract_text_from_pdf: the time process.join has waited
    queued_at,          \* history: the time of the worker's put
    extractPc,          \* extract_text_from_pdf: "join", "is_alive", "returned"
    extracted_text      \* extract_text_from_pdf: the value returned

cleanVars == <<kgFiles>>
doseVars == <<dosage_lines, dosePc, processed_dosages>>
buildEnv == <<lines, medical_terms, ner_ents, near_score>>
buildVars == <<buildEnv, lineNo, current_pdf, drug_name_mapping, data, origin, csv_out, buildPc>>
llmVars == <<llmStage, llmSite, llmContext, llmAttempt, llmPc, llmResult, llmTrace, siteValue>>
postVars == <<post_df, col, row_name, applied, postPc, postLog>>
batchVars == <<pdf_dir, output_txt, batchPc, file_ix, question_ix, run_no, llm_failures,
               skipped, interrupted, attempts, marked, asked>>
fnVars == <<fn, fn_vals>>
workerVars == <<pdf_text, process, result_queue, elapsed, queued_at, extractPc, extracted_text>>
vars == <<cleanVars, doseVars, buildVars, llmVars, entity_cache, postVars, batchVars, fnVars,
          workerVars>>

\* a script that does not run in a specification
CleanIdle == kgFiles = <<>>
DoseIdle == dosage_lines = <<>> /\ dosePc = "idle" /\ processed_dosages = <<>>
BuildIdle ==
    /\ lines = <<>> /\ lineNo = 0 /\ current_pdf = <<>> /\ drug_name_mapping = <<>>
    /\ data = <<>> /\ origin = <<>> /\ csv_out = <<>> /\ buildPc = "idle"
    /\ medical_terms = <<>> /\ ner_ents = {} /\ near_score = 0
LLMIdle ==
    /\ llmStage = "none" /\ llmSite = "none" /\ llmContext = <<>> /\ llmAttempt = 0
    /\ llmPc = "idle" /\ llmResult = <<>> /\ llmTrace = <<>> /\ siteValue = <<>>
PostIdle ==
    /\ entity_cache = <<>> /\ post_df = <<>> /\ col = 0 /\ row_name = 0 /\ applied = <<>>
    /\ postPc = "idle" /\ postLog = <<>>
FnIdle == fn = "none" /\ fn_vals = <<>>
WorkerIdle ==
    /\ pdf_text = <<>> /\ process = "none" /\ result_queue = <<>> /\ elapsed = 0
    /\ queued_at = 0 /\ extractPc = "idle" /\ extracted_text = <<>>
BatchIdle ==
    /\ pdf_dir = <<>> /\ output_txt = <<>> /\ batchPc = "idle" /\ file_ix = 0
    /\ question_ix = 0 /\ run_no = 0 /\ llm_failures = 0 /\ skipped = {}
    /\ interrupted = {} /\ attempts = <<>> /\ marked = {} /\ asked = {}

(***************************************************************************)
(* Characters and strings                                                  *)
(***************************************************************************)
UpperSeq == <<"A","B","C","D","E","F","G","H","I","J","K","L","M",
              "N","O","P","Q","R","S","T","U","V","W","X","Y","Z">>
LowerSeq == <<"a","b","c","d","e","f","g","h","i","j","k","l","m",
              "n","o","p","q","r","s","t","u","v","w","x","y","z">>
Digits == <<"0","1","2","3","4","5","6","7","8","9">>

Range(s) == {s[i] : i \in DOMAIN s}

\* [A-Za-z0-9]: the ASCII class of clean_specials' pattern
AsciiAlnum == Range(UpperSeq) \cup Range(LowerSeq) \cup Range(Digits)

\* letters outside ASCII that the pools use
UnicodeLetters == {"é"}

\* \w of a str pattern: Unicode letters and digits, and the underscore
WordChars == AsciiAlnum \cup UnicodeLetters \cup {"_"}

\* what str.strip() removes
Whitespace == {" ", "\t", "\n", "\r"}

\* str.lower() / re.IGNORECASE, one character
LowerOf ==
    [c \in Range(UpperSeq) |-> LowerSeq[CHOOSE i \in DOMAIN UpperSeq : UpperSeq[i] = c]]
LowerChar(c) == IF c \in DOMAIN LowerOf THEN LowerOf[c] ELSE c

Lower(s) == [i \in DOMAIN s |-> LowerChar(s[i])]

\* s[a..b], empty when a > b
Slice(s, a, b) == IF a > b THEN <<>> ELSE SubSeq(s, a, b)

\* str.strip(): leading and trailing whitespace removed
RECURSIVE LStrip(_)
LStrip(s) == IF s # <<>> /\ Head(s) \in Whitespace THEN LStrip(Tail(s)) ELSE s
RECURSIVE RStrip(_)
RStrip(s) ==
    IF s # <<>> /\ s[Len(s)] \in Whitespace THEN RStrip(Slice(s, 1, Len(s) - 1)) ELSE s
Strip(s) == RStrip(LStrip(s))

\* pattern p (already lower case) occurs in s at position i, ignoring case
MatchesAtCI(p, s, i) ==
    /\ i >= 1
    /\ i + Len(p) - 1 <= Len(s)
    /\ \A j \in 1..Len(p) : LowerChar(s[i + j - 1]) = p[j]

\* \b between s[k] and s[k+1] (k = 0: the start, k = Len(s): the end)
WordBoundary(s, k) ==
    LET left == k >= 1 /\ k <= Len(s) /\ s[k] \in WordChars
        right == k + 1 >= 1 /\ k + 1 <= Len(s) /\ s[k + 1] \in WordChars
    IN left # right

(***************************************************************************)
(* clean_kg.py                                                             *)
(***************************************************************************)
\* a missing value of a data frame (NaN)
NaN == <<"<NaN>">>

\* the field texts pandas.read_csv reads as missing (its default na_values)
NAStrings ==
    { <<>>, <<"N","A">>, <<"N","/","A">>, <<"n","/","a">>, <<"n","a","n">>,
      <<"N","a","N">>, <<"n","u","l","l">>, <<"N","U","L","L">>,
      <<"N","o","n","e">>, <<"#","N","/","A">>, <<"#","N","A">>,
      <<"<","N","A",">">>, <<"-","n","a","n">>, <<"-","N","a","N">> }

Row(s, p, o) == [Subject |-> s, Predicate |-> p, Object |-> o]

\* pd.read_csv: a field whose text is one of NAStrings is read as NaN
ReadField(text) == IF text \in NAStrings THEN NaN ELSE text
read_csv(file) ==
    [i \in DOMAIN file |->
        Row(ReadField(file[i].Subject), ReadField(file[i].Predicate),
            ReadField(file[i].Object))]

\* df.to_csv(index=False): a missing value is written as the empty field
WriteField(v) == IF v = NaN THEN <<>> ELSE v
to_csv(df) ==
    [i \in DOMAIN df |->
        Row(WriteField(df[i].Subject), WriteField(df[i].Predicate),
            WriteField(df[i].Object))]

\* Step 1
DropNulls(df) == SelectSeq(df, LAMBDA r : ~(r.Subject = NaN \/ r.Object = NaN))

\* Step 2: ^(data not|none|...)\b, case=False
PlaceholderPhrases ==
    { <<"d","a","t","a"," ","n","o","t">>,
      <<"n","o","n","e">>,
      <<"u","n","k","n","o","w","n">>,
      <<"n","o","t"," ","f","o","u","n","d">>,
      <<"n","o","t"," ","g","i","v","e","n">>,
      <<"n","o","t"," ","a","v","a","i","l","a","b","l","e">>,
      <<"d","r","u","g"," ","n","a","m","e"," ","n","o","t"," ","f","o","u","n","d">>,
      <<"n","o","t"," ","p","r","o","v","i","d","e","d">>,
      <<"n","o","t">>,
      <<"n","a","m","e"," ","n","o","t"," ","g","i","v","e","n">>,
      <<"i","n","a","d","e","q","u","a","t","e"," ","d","a","t","a">>,
      <<"i","n","s","u","f","f","i","c","i","e","n","t"," ","d","a","t","a">> }

placeholder_start_pattern(s) ==
    \E p \in PlaceholderPhrases : MatchesAtCI(p, s, 1) /\ WordBoundary(s, Len(p))

mask_placeholder(r) ==
    \/ (r.Subject # NaN /\ placeholder_start_pattern(r.Subject))
    \/ (r.Object # NaN /\ placeholder_start_pattern(r.Object))

DropPlaceholders(df) == SelectSeq(df, LAMBDA r : ~mask_placeholder(r))

\* Step 3: (unknown|...|no information)\b anywhere in Object, case=False
ObjectNoisePhrases ==
    { <<"u","n","k","n","o","w","n">>,
      <<"i","n","a","d","e","q","u","a","t","e"," ","d","a","t","a">>,
      <<"i","n","s","u","f","f","i","c","i","e","n","t"," ","d","a","t","a">>,
      <<"n","o"," ","c","o","l","o","u","r">>,
      <<"n","o"," ","s","h","a","p","e">>,
      <<"n","o"," ","w","a","r","n","i","n","g">>,
      <<"n","o"," ","c","o","n","t","r","a","i","n","d","i","c","a","t","i","o","n">>,
      <<"n","o"," ","d","a","t","a">>,
      <<"n","o"," ","i","n","f","o","r","m","a","t","i","o","n">> }

object_contains_pattern(s) ==
    \E p \in ObjectNoisePhrases : \E i \in 1..Len(s) :
        MatchesAtCI(p, s, i) /\ WordBoundary(s, i + Len(p) - 1)

DropObjectNoise(df) ==
    SelectSeq(df, LAMBDA r : ~(r.Object # NaN /\ object_contains_pattern(r.Object)))

\* Step 4: any flag phrase anywhere in Subject, case=False
subject_flag_phrases ==
    { <<"p","r","o","d","u","c","t"," ","n","a","m","e">>,
      <<"n","o","t"," ","s","t","a","t","e","d">>,
      <<"i","n","v","e","n","t","e","d"," ","n","a","m","e">>,
      <<"u","n","r","e","a","d","a","b","l","e"," ","t","e","x","t">> }

subject_flag_pattern(s) ==
    \E p \in subject_flag_phrases : \E i \in 1..Len(s) : MatchesAtCI(p, s, i)

DropSubjectFlags(df) ==
    SelectSeq(df, LAMBDA r : ~(r.Subject # NaN /\ subject_flag_pattern(r.Subject)))

\* Step 5: re.sub(r"^[^A-Za-z0-9]+|[^A-Za-z0-9]+$", "", text.strip())
RECURSIVE DropLeadingSpecials(_)
DropLeadingSpecials(s) ==
    IF s # <<>> /\ Head(s) \notin AsciiAlnum THEN DropLeadingSpecials(Tail(s)) ELSE s
RECURSIVE DropTrailingSpecials(_)
DropTrailingSpecials(s) ==
    IF s # <<>> /\ s[Len(s)] \notin AsciiAlnum
    THEN DropTrailingSpecials(Slice(s, 1, Len(s) - 1))
    ELSE s

clean_specials(text) ==
    IF text = NaN THEN text ELSE DropTrailingSpecials(DropLeadingSpecials(Strip(text)))

CleanSpecials(df) ==
    [i \in DOMAIN df |->
        Row(clean_specials(df[i].Subject), df[i].Predicate, clean_specials(df[i].Object))]

\* a deduplication that keeps the last occurrence of each row
drop_duplicates_KeepLast(df) ==
    LET keep == {i \in DOMAIN df : \A j \in (i + 1)..Len(df) : df[j] # df[i]}
        F[i \in 0..Len(df)] ==
            IF i = 0 THEN <<>>
            ELSE IF i \in keep THEN Append(F[i - 1], df[i]) ELSE F[i - 1]
    IN F[Len(df)]

\* Step 6: df.drop_duplicates(): the first of equal rows is kept
drop_duplicates(df) ==
    LET keep == {i \in DOMAIN df : \A j \in 1..(i - 1) : df[j] # df[i]}
        F[i \in 0..Len(df)] ==
            IF i = 0 THEN <<>>
            ELSE IF i \in keep THEN Append(F[i - 1], df[i]) ELSE F[i - 1]
    IN F[Len(df)]

\* Step 7: Object.astype(str).str.strip().str.lower().isin({'c','ig','na'})
target_values == { <<"c">>, <<"i","g">>, <<"n","a">> }

AsStr(v) == IF v = NaN THEN <<"n","a","n">> ELSE v

DropTargets(df) ==
    SelectSeq(df, LAMBDA r : Lower(Strip(AsStr(r.Object))) \notin target_values)

\* clean_kg, from the file read to the file written
clean_kg(file) ==
    to_csv(DropTargets(drop_duplicates(CleanSpecials(DropSubjectFlags(
        DropObjectNoise(DropPlaceholders(DropNulls(read_csv(file)))))))))

(***************************************************************************)
(* The cleaner's runs: clean_kg on an input file, then on its own output   *)
(***************************************************************************)
MaxTableRows == 2
MaxCleanRuns == 2

SubjectTexts == { <<"A","s","p","i","r","i","n">>, <<"(","n","o","n","e",")">>, <<>> }
PredicateTexts == { <<"HAS_SIDE_EFFECT">>, <<"HAS_WARNING">> }
ObjectTexts ==
    { <<"n","a","u","s","e","a">>, <<"-","-"," ","n","a","u","s","e","a","!","!">>, <<"(","n","o","n","e",")">>,
      <<"N","o","t"," ","A","v","a","i","l","a","b","l","e">>, <<" ","N","A"," ">>, <<"-","-">> }

FileRows == {Row(s, p, o) : s \in SubjectTexts, p \in PredicateTexts, o \in ObjectTexts}

\* the CSV files of at most MaxTableRows rows
InputFiles == UNION {[1..n -> FileRows] : n \in 0..MaxTableRows}

CleanInit == \E f \in InputFiles : kgFiles = <<f>>

\* python clean_kg.py --input <the newest file> --output <a new file>
CleanKG ==
    /\ kgFiles # <<>>
    /\ Len(kgFiles) <= MaxCleanRuns
    /\ kgFiles' = Append(kgFiles, clean_kg(kgFiles[Len(kgFiles)]))
    /\ UNCHANGED <<doseVars, buildVars, llmVars, entity_cache, postVars, batchVars, fnVars, workerVars>>

InitClean == CleanInit /\ DoseIdle /\ BuildIdle /\ LLMIdle /\ PostIdle /\ BatchIdle /\ FnIdle /\ WorkerIdle
NextClean == CleanKG
SpecClean == InitClean /\ [][NextClean]_vars

\* C1: the cleaner is idempotent: cleaning the output of a run yields that
\* output again, row for row and field for field.
C1_CleanIdempotent == Len(kgFiles) >= 3 => kgFiles[3] = kgFiles[2]

(***************************************************************************)
(* scripts/build_kg_csv.py: dosage                                         *)
(***************************************************************************)
\* unit_mapping, in the order of the dict
unit_mapping ==
    << <<<<"m","i","l","l","i","g","r","a","m">>, <<"m","g">>>>,
       <<<<"g","r","a","m">>, <<"g">>>>,
       <<<<"l","i","t","e","r">>, <<"L">>>>,
       <<<<"l","i","t","r","e">>, <<"L">>>>,
       <<<<"m","i","c","r","o","g","r","a","m">>, <<"m","c","g">>>>,
       <<<<"n","a","n","o","g","r","a","m">>, <<"n","g">>>>,
       <<<<"k","i","l","o","g","r","a","m">>, <<"k","g">>>> >>

\* re.sub(rf"\b{long}\b", short, s, flags=re.IGNORECASE), from position i on
RECURSIVE SubUnit(_, _, _, _)
SubUnit(s, i, long, short) ==
    IF i > Len(s) THEN <<>>
    ELSE IF /\ MatchesAtCI(long, s, i)
            /\ WordBoundary(s, i - 1)
            /\ WordBoundary(s, i + Len(long) - 1)
         THEN short \o SubUnit(s, i + Len(long), long, short)
         ELSE <<s[i]>> \o SubUnit(s, i + 1, long, short)

RECURSIVE StandardizeFrom(_, _)
StandardizeFrom(s, k) ==
    IF k > Len(unit_mapping) THEN s
    ELSE StandardizeFrom(SubUnit(s, 1, unit_mapping[k][1], unit_mapping[k][2]), k + 1)

standardize_dosage(dosage) == StandardizeFrom(dosage, 1)

IsDigit(c) == c \in Range(Digits)

\* the end of the run of characters of class C that starts at s[i] (i - 1 when empty)
RECURSIVE RunEnd(_, _, _)
RunEnd(s, i, C) == IF i <= Len(s) /\ s[i] \in C THEN RunEnd(s, i + 1, C) ELSE i - 1

\* re.search(r"(\d+)\s*mg", s) can start at i
DoseMatchAt(s, i) ==
    /\ i \in DOMAIN s
    /\ IsDigit(s[i])
    /\ LET k == RunEnd(s, RunEnd(s, i, Range(Digits)) + 1, Whitespace)
       IN k + 2 <= Len(s) /\ s[k + 1] = "m" /\ s[k + 2] = "g"

DoseMatches(s) == {i \in DOMAIN s : DoseMatchAt(s, i)}

\* match.group(1) of the leftmost match
DoseGroup(s) ==
    LET i == CHOOSE m \in DoseMatches(s) : \A n \in DoseMatches(s) : m <= n
    IN Slice(s, i, RunEnd(s, i, Range(Digits)))

ValueOf == [c \in Range(Digits) |-> (CHOOSE i \in DOMAIN Digits : Digits[i] = c) - 1]
DigitValue(c) == ValueOf[c]

\* int(text) of a run of digits
RECURSIVE ParseInt(_)
ParseInt(d) ==
    IF d = <<>> THEN 0 ELSE 10 * ParseInt(Slice(d, 1, Len(d) - 1)) + DigitValue(d[Len(d)])

\* str(n), n >= 0
RECURSIVE FormatInt(_)
FormatInt(n) ==
    IF n < 10 THEN <<Digits[n + 1]>> ELSE FormatInt(n \div 10) \o <<Digits[(n % 10) + 1]>>

\* f"{n} mg"
FormatMg(n) == FormatInt(n) \o <<" ","m","g">>

PrescribedText == <<"D","o","s","a","g","e"," ","t","o"," ","b","e"," ","p","r","e","s","c","r","i","b","e","d"," ","b","y"," ","d","o","c","t","o","r">>

Contains(s, p) ==
    \E i \in 1..(Len(s) - Len(p) + 1) : \A j \in 1..Len(p) : s[i + j - 1] = p[j]

SeqMin(q) == CHOOSE x \in Range(q) : \A y \in Range(q) : x <= y
SeqMax(q) == CHOOSE x \in Range(q) : \A y \in Range(q) : x >= y

\* one iteration of the loop of extract_dosage_values, on the standardized
\* line: "if match: numeric_values.append(int(match.group(1)))"
DoseValues(dosage, numeric_values) ==
    IF DoseMatches(dosage) # {}
    THEN Append(numeric_values, ParseInt(DoseGroup(dosage)))
    ELSE numeric_values

\* "elif marker in dosage: contains_prescribed_text = True"
DoseFlag(dosage, contains_prescribed_text) ==
    IF DoseMatches(dosage) = {} /\ Contains(dosage, PrescribedText)
    THEN TRUE
    ELSE contains_prescribed_text

\* the loop of extract_dosage_values over dosage_list[k..]: the state it ends in
RECURSIVE DosageLoop(_, _, _, _)
DosageLoop(dosage_list, k, numeric_values, contains_prescribed_text) ==
    IF k > Len(dosage_list)
    THEN [numeric_values |-> numeric_values,
          contains_prescribed_text |-> contains_prescribed_text]
    ELSE DosageLoop(dosage_list, k + 1,
                    DoseValues(standardize_dosage(dosage_list[k]), numeric_values),
                    DoseFlag(standardize_dosage(dosage_list[k]), contains_prescribed_text))

\* DosageResult with the two-value rule applied from one value on
DosageResult_AlwaysRange(numeric_values, contains_prescribed_text) ==
    IF numeric_values # <<>>
    THEN <<FormatMg(SeqMin(numeric_values)), FormatMg(SeqMax(numeric_values))>>
    ELSE IF contains_prescribed_text THEN <<PrescribedText>> ELSE <<>>

\* the return of extract_dosage_values from the loop's final state
DosageResult(numeric_values, contains_prescribed_text) ==
    IF numeric_values # <<>>
    THEN IF Len(numeric_values) > 1
         THEN <<FormatMg(SeqMin(numeric_values)), FormatMg(SeqMax(numeric_values))>>
         ELSE <<FormatMg(numeric_values[1])>>
    ELSE IF contains_prescribed_text THEN <<PrescribedText>> ELSE <<>>

DosageReturn(end) == DosageResult(end.numeric_values, end.contains_prescribed_text)

extract_dosage_values(dosage_list) == DosageReturn(DosageLoop(dosage_list, 1, <<>>, FALSE))

\* the dose lines of the runs
MaxDoseLines == 3

DoseLinePool ==
    { <<"1","2","0"," ","m","g">>,
      <<"6","0","m","g"," ","x","2">>,
      <<"5","0","0"," ","m","i","l","l","i","g","r","a","m">>,
      <<"5"," ","M","i","l","l","i","g","r","a","m","s">>,
      <<"D","o","s","a","g","e"," ","t","o"," ","b","e"," ","p","r","e","s","c","r","i","b","e","d"," ","b","y"," ","d","o","c","t","o","r">>,
      <<"A","d","u","l","t","s"," ","-"," ","0","6","0"," ","m","g">>,
      <<"1","0"," ","m","c","g">>,
      <<"C","h","i","l","d","r","e","n"," ","-"," ","D","o","s","a","g","e"," ","t","o"," ","b","e"," ","p","r","e","s","c","r","i","b","e","d"," ","b","y"," ","d","o","c","t","o","r",","," ","5"," ","m","g">> }

DoseLists == UNION {[1..n -> DoseLinePool] : n \in 0..MaxDoseLines}

DoseInit ==
    /\ dosage_lines \in DoseLists
    /\ dosePc = "call"
    /\ processed_dosages = <<>>

\* processed_dosages = extract_dosage_values(dosage_lines)
ExtractDosageValues ==
    /\ dosePc = "call"
    /\ processed_dosages' = extract_dosage_values(dosage_lines)
    /\ dosePc' = "done"
    /\ UNCHANGED <<dosage_lines, cleanVars, buildVars, llmVars, entity_cache, postVars, batchVars, fnVars, workerVars>>

InitDosage == DoseInit /\ CleanIdle /\ BuildIdle /\ LLMIdle /\ PostIdle /\ BatchIdle /\ FnIdle /\ WorkerIdle
NextDosage == ExtractDosageValues
SpecDosage == InitDosage /\ [][NextDosage]_vars

\* the lines from which an integer mg dose is captured, and the doses
CapturedLines(dl) == {k \in DOMAIN dl : DoseMatches(standardize_dosage(dl[k])) # {}}
CapturedDoses(dl) ==
    {ParseInt(DoseGroup(standardize_dosage(dl[k]))) : k \in CapturedLines(dl)}
SetMin(S) == CHOOSE x \in S : \A y \in S : x <= y
SetMax(S) == CHOOSE x \in S : \A y \in S : x >= y
HasPrescribedLine(dl) == \E k \in DOMAIN dl : Contains(dl[k], PrescribedText)

\* C5: with N the number of dose lines from which an integer mg dose is
\* captured, the result is ["{min} mg", "{max} mg"] when N >= 2, ["{value} mg"]
\* when N = 1, the marker phrase alone when N = 0 and some line contains it,
\* and the empty list otherwise.
C5_DosageOutputRule ==
    dosePc = "done" =>
        LET N == Cardinality(CapturedLines(dosage_lines))
            D == CapturedDoses(dosage_lines)
        IN processed_dosages =
            IF N >= 2 THEN <<FormatMg(SetMin(D)), FormatMg(SetMax(D))>>
            ELSE IF N = 1 THEN <<FormatMg(SetMin(D))>>
            ELSE IF HasPrescribedLine(dosage_lines) THEN <<PrescribedText>>
            ELSE <<>>

\* the four cases of C5 happen: two distinct doses with a line that captures
\* none, one dose beside a marker line, the marker alone, and nothing
C5_Witness ==
    /\ dosePc = "done"
    /\ Len(dosage_lines) = 3
    /\ Cardinality(CapturedLines(dosage_lines)) = 2
    /\ HasPrescribedLine(dosage_lines)
    /\ processed_dosages = <<FormatMg(60), FormatMg(120)>>

(***************************************************************************)
(* scripts/build_kg_csv.py: the normalizers of the list predicates         *)
(***************************************************************************)
\* a name that is not bound / the value None
Undefined == <<"<undefined>">>
None == <<"<None>">>

StartsWith(s, p) == Len(p) <= Len(s) /\ \A j \in 1..Len(p) : s[j] = p[j]

\* s.split(c), c one character, from position i on
RECURSIVE SplitFrom(_, _, _)
SplitFrom(s, i, c) ==
    LET hits == {j \in i..Len(s) : s[j] = c}
    IN IF hits = {} THEN <<Slice(s, i, Len(s))>>
       ELSE LET j == CHOOSE m \in hits : \A n \in hits : m <= n
            IN <<Slice(s, i, j - 1)>> \o SplitFrom(s, j + 1, c)
Split(s, c) == SplitFrom(s, 1, c)

\* s.replace(old, new), from position i on
RECURSIVE ReplaceFrom(_, _, _, _)
ReplaceFrom(s, i, old, new) ==
    IF i > Len(s) THEN <<>>
    ELSE IF StartsWith(Slice(s, i, Len(s)), old)
         THEN new \o ReplaceFrom(s, i + Len(old), old, new)
         ELSE <<s[i]>> \o ReplaceFrom(s, i + 1, old, new)
Replace(s, old, new) == ReplaceFrom(s, 1, old, new)

\* the maximal runs of word characters of s that start at position i or later
RECURSIVE WordsFrom(_, _)
WordsFrom(s, i) ==
    IF i > Len(s) THEN <<>>
    ELSE IF s[i] \in WordChars
         THEN LET e == RunEnd(s, i, WordChars)
              IN <<Slice(s, i, e)>> \o WordsFrom(s, e + 1)
         ELSE WordsFrom(s, i + 1)

\* normalize_medical_entity: the first entity en_ner_bc5cdr_md finds in the
\* lower-cased text, else the text as given.  The NER model is outside the
\* repository: it is a set ents of the words it recognises.
normalize_medical_entity(entity, ents) ==
    LET words == WordsFrom(Lower(entity), 1)
        hits == {k \in DOMAIN words : words[k] \in ents}
    IN IF hits = {} THEN entity
       ELSE words[CHOOSE m \in hits : \A n \in hits : m <= n]

\* WordNet's base forms of the nouns the pools use (the lemmatizer is outside
\* the repository); a word WordNet does not reduce is its own base form
WordNetLemma ==
    [w \in { <<"h","e","a","d","a","c","h","e","s">>, <<"r","a","s","h","e","s">> } |->
        IF w = <<"h","e","a","d","a","c","h","e","s">> THEN <<"h","e","a","d","a","c","h","e">> ELSE <<"r","a","s","h">>]

\* lemmatize_entity
lemmatize_entity(entity) ==
    LET w == Lower(entity)
    IN IF w \in DOMAIN WordNetLemma THEN WordNetLemma[w] ELSE w

\* fuzzywuzzy's full_process, applied to query and choices alike: every
\* character outside \w becomes a blank, then lower case, then strip
full_process(s) ==
    Strip(Lower([i \in DOMAIN s |-> IF s[i] \in WordChars THEN s[i] ELSE " "]))

\* pairs of distinct terms that fuzzywuzzy's WRatio scores near the threshold
NearPairs ==
    { {<<"n","a","u","s","a">>, <<"n","a","u","s","e","a">>},
      {<<"b","a","d"," ","n","a","u","s","a">>, <<"b","a","d"," ","n","a","u","s","e","a">>} }

\* WRatio on the processed texts: 0 when either is empty, 100 when they are
\* equal, near for a pair of NearPairs; any other pair scores far below
WRatioOf(pa, pb, near) ==
    IF pa = <<>> \/ pb = <<>> THEN 0
    ELSE IF pa = pb THEN 100
    ELSE IF {pa, pb} \in NearPairs THEN near
    ELSE 0

WRatio(a, b, near) == WRatioOf(full_process(a), full_process(b), near)

\* process.extractOne(query, choices): the first choice of the best score,
\* None when there is no choice
BestChoice(choices, score) ==
    CHOOSE k \in DOMAIN choices :
        /\ \A n \in DOMAIN choices : score[n] <= score[k]
        /\ \A n \in 1..(k - 1) : score[n] < score[k]

BestOf(choices, score, best) == <<choices[best], score[best]>>

ScoredOne(choices, score) ==
    IF choices = <<>> THEN None ELSE BestOf(choices, score, BestChoice(choices, score))

extractOne(query, choices, near) ==
    ScoredOne(choices, [k \in DOMAIN choices |-> WRatio(query, choices[k], near)])

\* FuzzyPick with the threshold itself accepted
FuzzyPick_AtLeast(entity, r) ==
    IF r = None THEN Undefined
    ELSE IF r[2] >= 85 THEN r[1] ELSE entity

\* "match if score > 85 else entity"; unpacking None raises TypeError
\* (Undefined here)
FuzzyPick(entity, r) ==
    IF r = None THEN Undefined
    ELSE IF r[2] > 85 THEN r[1] ELSE entity

\* fuzzy_match_entity
fuzzy_match_entity(entity, terms, near) == FuzzyPick(entity, extractOne(entity, terms, near))

(***************************************************************************)
(* scripts/build_kg_csv.py: the extraction loop                            *)
(***************************************************************************)
\* the canonical question texts, each one symbol
QName == "What is the name of the drug/medicine?"
QSideEffect == "List the side-effects found in the leaflet as a comma-separated list of names only."
QActive == "List the active ingredient(s) found in the leaflet as a comma-separated list of names only."
QInactive == "List the inactive ingredients found in the leaflet as a comma-separated list of names only."
QContra == "List the contraindications found in the leaflet as a comma-separated list of names only."
QWarning == "List the warnings and precautions found in the leaflet as a comma-separated list of names only."
QStorage == "Extract storage conditions into standardized format"
QDosage == "Extract categorized dosage information"
QShape == "Extract only the shape of the drug"
QColour == "Extract only the color of the drug"

relationship_mappings ==
    << <<QName, "HAS_NAME">>,
       <<QSideEffect, "HAS_SIDE_EFFECT">>,
       <<QActive, "HAS_ACTIVE_INGREDIENT">>,
       <<QInactive, "HAS_INACTIVE_INGREDIENT">>,
       <<QContra, "HAS_CONTRAINDICATION">>,
       <<QWarning, "HAS_WARNING">>,
       <<QStorage, "HAS_STORAGE_INFO">>,
       <<QDosage, "HAS_DOSAGE_INFO">>,
       <<QShape, "HAS_SHAPE">>,
       <<QColour, "HAS_COLOUR">> >>

ListRelations ==
    {"HAS_SIDE_EFFECT", "HAS_ACTIVE_INGREDIENT", "HAS_INACTIVE_INGREDIENT",
     "HAS_CONTRAINDICATION", "HAS_WARNING"}

\* the texts the loop tests lines against
MarkerPrefix == <<"Drug Leaflet", ":">>
QPrefix == <<"Q", ":", " ">>
APrefix == <<"A", ":", " ">>
BulletPrefix == <<"-", " ">>

\* line.split(":")[1].strip() of a marker line
MarkerPdf(line) == Strip(Split(line, ":")[2])

\* next((l.strip() for l in lines[i + 1:] if l.startswith("A: ")), None)
answer_line(ls, i) ==
    LET hits == {j \in (i + 1)..Len(ls) : StartsWith(ls[j], APrefix)}
    IN IF hits = {} THEN None
       ELSE Strip(ls[CHOOSE m \in hits : \A n \in hits : m <= n])

\* answer_line.replace("A: ", "").strip()
AnswerText(al) == Strip(Replace(al, APrefix, <<>>))

\* the relations whose question the stripped line starts with, in dict order
MatchedRelations(line) ==
    LET F[k \in 0..Len(relationship_mappings)] ==
            IF k = 0 THEN <<>>
            ELSE IF StartsWith(line, QPrefix \o <<relationship_mappings[k][1]>>)
                 THEN Append(F[k - 1], relationship_mappings[k][2])
                 ELSE F[k - 1]
    IN F[Len(relationship_mappings)]

\* the bullet lines after line i, to the next question line or the end
RECURSIVE DosageLines(_, _)
DosageLines(ls, j) ==
    IF j > Len(ls) THEN <<>>
    ELSE IF StartsWith(Strip(ls[j]), BulletPrefix)
         THEN <<Strip(Replace(Strip(ls[j]), BulletPrefix, <<>>))>> \o DosageLines(ls, j + 1)
         ELSE IF StartsWith(Strip(ls[j]), QPrefix) THEN <<>>
              ELSE DosageLines(ls, j + 1)

\* normalize, lemmatize, fuzzy-match one value of a list predicate
NormalizeTerm(value, terms, ents, near) ==
    fuzzy_match_entity(lemmatize_entity(normalize_medical_entity(value, ents)), terms, near)

StripAll(q) == [k \in DOMAIN q |-> Strip(q[k])]

\* the values of a list answer: its comma-separated parts, or the answer whole
ListValues(answer) ==
    IF \E k \in DOMAIN answer : answer[k] = "," THEN StripAll(Split(answer, ","))
    ELSE <<answer>>

NormalizeAll(values, terms, ents, near) ==
    [k \in DOMAIN values |-> NormalizeTerm(values[k], terms, ents, near)]

\* the objects one matched question appends, in order
ObjectsOf(relation, answer, ls, i, terms, ents, near) ==
    IF relation = "HAS_DOSAGE_INFO"
    THEN extract_dosage_values(DosageLines(ls, i + 1))
    ELSE IF relation = "HAS_STORAGE_INFO" THEN <<answer>>
    ELSE IF relation = "HAS_COLOUR" THEN StripAll(Split(answer, ","))
    ELSE IF relation \in ListRelations
         THEN NormalizeAll(ListValues(answer), terms, ents, near)
    ELSE <<answer>>

\* drug_name_mapping.get(pdf, pdf)
MappingGet(mapping, pdf) == IF pdf \in DOMAIN mapping THEN mapping[pdf] ELSE pdf

\* drug_name_mapping[pdf] = name
MappingPut(mapping, pdf, name) ==
    [x \in DOMAIN mapping \cup {pdf} |-> IF x = pdf THEN name ELSE mapping[x]]

\* the rows of one matched question
RowsOf(subject, relation, objs) ==
    [n \in DOMAIN objs |-> Row(subject, <<relation>>, objs[n])]

\* what one line appends to data: the rows of every question it matches
RECURSIVE EmittedRows(_, _, _, _, _, _, _, _, _)
EmittedRows(rels, k, answer, ls, i, subject, terms, ents, near) ==
    IF k > Len(rels) THEN <<>>
    ELSE RowsOf(subject, rels[k], ObjectsOf(rels[k], answer, ls, i, terms, ents, near))
         \o EmittedRows(rels, k + 1, answer, ls, i, subject, terms, ents, near)

\* NameError: current_pdf is read before any marker line bound it;
\* TypeError: extractOne returned None
Raises(pdf, named, rows) ==
    \/ named /\ pdf = Undefined
    \/ \E k \in DOMAIN rows : rows[k].Object = Undefined

\* the loop body once the line, its answer line and its rows are known
LineEffect(pdf, mapping, named, rows) ==
    IF Raises(pdf, named, rows)
    THEN /\ buildPc' = "crashed"
         /\ UNCHANGED <<lineNo, current_pdf, drug_name_mapping, data, origin>>
    ELSE /\ current_pdf' = pdf
         /\ drug_name_mapping' = mapping
         /\ data' = data \o rows
         /\ origin' = origin \o [k \in DOMAIN rows |-> lineNo]
         /\ lineNo' = lineNo + 1
         /\ buildPc' = "loop"

\* "if line.startswith(Q: name) ... drug_name_mapping[current_pdf] = current_drug"
NameStep(line, al, pdf, mapping) ==
    IF StartsWith(line, QPrefix \o <<QName>>) /\ al # None
    THEN MappingPut(mapping, pdf, AnswerText(al))
    ELSE mapping

\* "for question, relation in relationship_mappings.items(): ..."
QuestionStep(rels, al, pdf, mapping) ==
    LineEffect(pdf, mapping, rels # <<>> /\ al # None,
               IF rels # <<>> /\ al # None
               THEN EmittedRows(rels, 1, AnswerText(al), lines, lineNo,
                                MappingGet(mapping, pdf),
                                medical_terms, ner_ents, near_score)
               ELSE <<>>)

LineStep(line, al, pdf) ==
    QuestionStep(MatchedRelations(line), al, pdf,
                 NameStep(line, al, pdf, drug_name_mapping))

MarkerStep(line, al) ==
    LineStep(line, al, IF StartsWith(line, MarkerPrefix) THEN MarkerPdf(line) ELSE current_pdf)

\* one iteration of "for i, line in enumerate(lines)"
BuildLine ==
    /\ buildPc = "loop"
    /\ lineNo <= Len(lines)
    /\ MarkerStep(Strip(lines[lineNo]), answer_line(lines, lineNo))
    /\ UNCHANGED <<buildEnv, csv_out, cleanVars, doseVars, llmVars, entity_cache, postVars, batchVars, fnVars, workerVars>>

\* DataFrameOut without the drop_duplicates
DataFrameOut_NoDedup(rows) == to_csv(rows)

\* df = pd.DataFrame(data); df.drop_duplicates(inplace=True); df.to_csv(...)
DataFrameOut(rows) == to_csv(drop_duplicates(rows))

\* the end of the script: the rows are written once the loop is over
BuildWrite ==
    /\ buildPc = "loop"
    /\ lineNo > Len(lines)
    /\ csv_out' = DataFrameOut(data)
    /\ buildPc' = "done"
    /\ UNCHANGED <<buildEnv, lineNo, current_pdf, drug_name_mapping, data, origin,
                   cleanVars, doseVars, llmVars, entity_cache, postVars, batchVars, fnVars, workerVars>>

\* the transcripts of the runs
MaxLines == 4

PdfA == <<"A",".","p","d","f">>
PdfB == <<"B",".","p","d","f">>
MarkerLine(pdf) == MarkerPrefix \o <<" ">> \o pdf
QLine(q) == QPrefix \o <<q>>
ALine(text) == APrefix \o text

BuildLinePool ==
    { MarkerLine(PdfA), MarkerLine(PdfB),
      QLine(QName), ALine(<<"A","s","p","i","r","i","n">>),
      QLine(QColour), ALine(<<"r","e","d",","," ">>),
      QLine(QSideEffect), ALine(<<"N","a","u","s","e","a",","," ","h","e","a","d","a","c","h","e","s">>),
      QLine(QDosage), BulletPrefix \o <<"6","0"," ","m","g">> }

Transcripts == UNION {[1..n -> BuildLinePool] : n \in 0..MaxLines}

BuildStart ==
    /\ lineNo = 1 /\ current_pdf = Undefined /\ drug_name_mapping = <<>>
    /\ data = <<>> /\ origin = <<>> /\ csv_out = <<>> /\ buildPc = "loop"

BuildInit ==
    /\ lines \in Transcripts
    /\ medical_terms = << <<"n","a","u","s","e","a">>, <<"h","e","a","d","a","c","h","e">> >>
    /\ ner_ents = { <<"n","a","u","s","e","a">> }
    /\ near_score = 86
    /\ BuildStart

InitBuild == BuildInit /\ CleanIdle /\ DoseIdle /\ LLMIdle /\ PostIdle /\ BatchIdle /\ FnIdle /\ WorkerIdle
NextBuild == BuildLine \/ BuildWrite
SpecBuild == InitBuild /\ [][NextBuild]_vars

(***************************************************************************)
(* End to end: one block, as extract_information.py writes it              *)
(***************************************************************************)
MaxVocab == 2

Rule == "========================================"
Aspirin == <<"A","s","p","i","r","i","n">>
Nausea == <<"n","a","u","s","e","a">>
Headache == <<"h","e","a","d","a","c","h","e">>

E2ETranscript ==
    << <<Rule>>, MarkerLine(PdfA), <<Rule>>, <<>>,
       QLine(QName), ALine(Aspirin), <<>>,
       QLine(QSideEffect), ALine(<<"N","a","u","s","e","a",","," ","H","e","a","d","a","c","h","e",","," ","h","e","a","d","a","c","h","e">>), <<>>,
       <<>>, <<>> >>

VocabPool == { Nausea, Headache, <<"n","a","u","s","a">> }
Vocabularies == UNION {[1..n -> VocabPool] : n \in 0..MaxVocab}

E2EInit ==
    /\ lines = E2ETranscript
    /\ medical_terms \in Vocabularies
    /\ ner_ents \in SUBSET {Nausea, Headache}
    /\ near_score \in {85, 86}
    /\ BuildStart

InitE2E == E2EInit /\ CleanIdle /\ DoseIdle /\ LLMIdle /\ PostIdle /\ BatchIdle /\ FnIdle /\ WorkerIdle
NextE2E == BuildLine \/ BuildWrite
SpecE2E == InitE2E /\ [][NextE2E]_vars

\* fuzzy correction against the vocabulary leaves the term as it is
FuzzyKeeps(term) == fuzzy_match_entity(term, medical_terms, near_score) = term

E2EDone ==
    /\ buildPc = "done"
    /\ lines = E2ETranscript
    /\ FuzzyKeeps(Nausea)
    /\ FuzzyKeeps(Headache)

\* C6 as stated: the block (source A.pdf, name Aspirin, side-effects "Nausea,
\* Headache, headache") yields exactly the two HAS_SIDE_EFFECT triples of
\* nausea and headache, and no other row.
C6_TwoTriples ==
    E2EDone =>
        csv_out = << Row(Aspirin, <<"HAS_SIDE_EFFECT">>, Nausea),
                     Row(Aspirin, <<"HAS_SIDE_EFFECT">>, Headache) >>

\* C6 amended: the block yields exactly three triples after deduplication,
\* the HAS_NAME triple (Aspirin, HAS_NAME, Aspirin) first, then the two
\* HAS_SIDE_EFFECT triples of nausea and headache, whenever fuzzy correction
\* against the vocabulary leaves nausea and headache unchanged.
C6_ThreeTriples ==
    E2EDone =>
        csv_out = << Row(Aspirin, <<"HAS_NAME">>, Aspirin),
                     Row(Aspirin, <<"HAS_SIDE_EFFECT">>, Nausea),
                     Row(Aspirin, <<"HAS_SIDE_EFFECT">>, Headache) >>

\* the block was processed to the end under a vocabulary that holds a near
\* miss of nausea beside the term itself, and four rows were deduplicated to three
C6_Witness ==
    /\ E2EDone
    /\ \E k \in DOMAIN medical_terms : medical_terms[k] \notin {Nausea, Headache}
    /\ Len(data) = 4
    /\ Len(csv_out) = 3

(***************************************************************************)
(* The transcript as the parser's contract reads it: blocks, questions and *)
(* their own answers                                                       *)
(***************************************************************************)
IsMarker(ls, j) == StartsWith(Strip(ls[j]), MarkerPrefix)
IsQuestion(ls, j) == StartsWith(Strip(ls[j]), QPrefix)
IsAnswer(ls, j) == StartsWith(Strip(ls[j]), <<"A", ":">>)

\* the marker line of the block line q lies in (0: before any block)
BlockStart(ls, q) ==
    LET ms == {j \in 1..q : IsMarker(ls, j)}
    IN IF ms = {} THEN 0 ELSE CHOOSE m \in ms : \A n \in ms : n <= m

\* the last line of the block line q lies in
BlockEnd(ls, q) ==
    LET ms == {j \in (q + 1)..Len(ls) : IsMarker(ls, j)}
    IN IF ms = {} THEN Len(ls) ELSE (CHOOSE m \in ms : \A n \in ms : m <= n) - 1

\* the lines after question q that belong to it: up to the next question line
\* or the end of the block
OwnLines(ls, q) ==
    {j \in (q + 1)..BlockEnd(ls, q) : \A n \in (q + 1)..j : ~IsQuestion(ls, n)}

OwnAnswers(ls, q) == {j \in OwnLines(ls, q) : IsAnswer(ls, j)}

\* the text of the first answer line of question q
OwnAnswerText(ls, q) ==
    LET j == CHOOSE m \in OwnAnswers(ls, q) : \A n \in OwnAnswers(ls, q) : m <= n
    IN Strip(Slice(Strip(ls[j]), 3, Len(Strip(ls[j]))))

\* the raw source identifier of the block that starts at marker line m
RawSource(ls, m) == Strip(Slice(Strip(ls[m]), 3, Len(Strip(ls[m]))))

\* the answered HAS_NAME questions of the block of line q
NameQuestions(ls, q) ==
    {j \in BlockStart(ls, q)..BlockEnd(ls, q) :
        /\ j >= 1
        /\ StartsWith(Strip(ls[j]), QPrefix \o <<QName>>)
        /\ OwnAnswers(ls, j) # {}}

\* the resolved drug name(s) of the block of line q
ResolvedNames(ls, q) ==
    IF NameQuestions(ls, q) # {}
    THEN {OwnAnswerText(ls, j) : j \in NameQuestions(ls, q)}
    ELSE {RawSource(ls, BlockStart(ls, q))}

\* C2: every emitted triple has a subject and an object that are non-empty
\* after trimming; no triple is emitted for an empty object (an empty segment
\* of a comma-split list or colour answer included).
C2_NonEmptyFields ==
    \A k \in DOMAIN csv_out :
        Strip(csv_out[k].Subject) # <<>> /\ Strip(csv_out[k].Object) # <<>>

\* C3: every triple of a block has the block's resolved drug name as subject:
\* the answer of the block's HAS_NAME question if it has one, else the block's
\* raw source identifier; never a name taken from another block.
C3_SubjectIsBlockName ==
    \A k \in DOMAIN data :
        BlockStart(lines, origin[k]) >= 1 =>
            data[k].Subject \in ResolvedNames(lines, origin[k])

\* C4: a question line with no answer line of its own (none before the next
\* question line or the end of its block) yields no triple.
C4_UnansweredQuestionSkipped ==
    \A k \in DOMAIN data : OwnAnswers(lines, origin[k]) # {}

(***************************************************************************)
(* query_model: scripts/extract_information.py and scripts/postprocess_kg.py*)
(***************************************************************************)
\* retries=3, delay=5 of both query_model
retries == 3
delay == 5

\* time.sleep(delay) / the time.sleep(1) after a response
SleepDelay == [ev |-> "sleep", secs |-> delay]
SleepPace == [ev |-> "sleep", secs |-> 1]
Request == [ev |-> "request", secs |-> 0]
Outcome(o) == [ev |-> o, secs |-> 0]

\* a loop that gives up one attempt later
LastAttempt_OneMore(attempt) == attempt = retries

\* "if attempt == retries - 1: return None"
LastAttempt(attempt) == attempt = retries - 1

\* "for attempt in range(retries)" of postprocess_kg is over
LoopOver(attempt) == attempt >= retries

\* the message contents a response can carry; None when the body has no "content"
Contents == { None, <<>>, <<" ","2"," ","-"," ","8"," ","d","e","g","r","e","e","s"," ">>, <<"A","d","u","l","t","s"," ","-"," ","6","0"," ","m","g","\n","C","h","i","l","d","r","e","n"," ","-"," ","5"," ","m","g">> }

\* the contents an answer to the shortening question can carry
PostContents == { <<>>, <<" ","h","y","p","e","r","t","e","n","s","i","o","n"," ">> }

\* extract_information.query_model: the request succeeds
ExtractOk ==
    /\ llmStage = "extract" /\ llmPc = "try"
    /\ \E content \in Contents :
        /\ llmResult' = content
        /\ llmTrace' = llmTrace \o <<Request, Outcome("ok"), SleepPace>>
    /\ llmPc' = "returned"
    /\ UNCHANGED <<llmStage, llmSite, llmContext, llmAttempt, siteValue, entity_cache,
                   cleanVars, doseVars, buildVars, postVars,
                   batchVars, fnVars, workerVars>>

\* the end of an iteration that caught an exception
ExtractNext(events) ==
    /\ llmTrace' = llmTrace \o events
    /\ IF LastAttempt(llmAttempt)
       THEN llmResult' = None /\ llmPc' = "returned" /\ UNCHANGED llmAttempt
       ELSE llmAttempt' = llmAttempt + 1 /\ UNCHANGED <<llmResult, llmPc>>
    /\ UNCHANGED <<llmStage, llmSite, llmContext, siteValue, entity_cache,
                   cleanVars, doseVars, buildVars, postVars,
                   batchVars, fnVars, workerVars>>

\* "except requests.exceptions.Timeout: ... time.sleep(delay)"
ExtractTimeout ==
    /\ llmStage = "extract" /\ llmPc = "try"
    /\ ExtractNext(<<Request, Outcome("timeout"), SleepDelay>>)

\* "except requests.exceptions.RequestException as e: logging.error(...)"
ExtractRequestError ==
    /\ llmStage = "extract" /\ llmPc = "try"
    /\ ExtractNext(<<Request, Outcome("error")>>)

\* the response is JSON of another shape: .get(...)[0] raises, past both excepts
ExtractMalformed ==
    /\ llmStage = "extract" /\ llmPc = "try"
    /\ llmTrace' = llmTrace \o <<Request, Outcome("malformed"), SleepPace>>
    /\ llmPc' = "raised"
    /\ UNCHANGED <<llmStage, llmSite, llmContext, llmAttempt, llmResult, siteValue,
                   entity_cache, cleanVars, doseVars, buildVars, postVars,
                   batchVars, fnVars, workerVars>>

\* a query_model that caches nothing
CachePut_Nothing(cache, context, result) == cache

\* entity_cache[context] = result
CachePut(cache, context, result) ==
    [x \in DOMAIN cache \cup {context} |-> IF x = context THEN result ELSE cache[x]]

\* postprocess_kg.query_model: the request succeeds; the result is cached
PostOk ==
    /\ llmStage = "post" /\ llmPc = "try"
    /\ \E content \in PostContents :
        /\ llmResult' = Strip(content)
        /\ entity_cache' = CachePut(entity_cache, llmContext, Strip(content))
    /\ llmTrace' = llmTrace \o <<Request, Outcome("ok")>>
    /\ llmPc' = "returned"
    /\ UNCHANGED <<llmStage, llmSite, llmContext, llmAttempt, siteValue,
                   cleanVars, doseVars, buildVars, postVars,
                   batchVars, fnVars, workerVars>>

\* "except requests.exceptions.RequestException as e: ... time.sleep(delay)"
\* (a Timeout is a RequestException); after the last attempt "return context"
PostRequestError ==
    /\ llmStage = "post" /\ llmPc = "try"
    /\ llmTrace' = llmTrace \o <<Request, Outcome("error"), SleepDelay>>
    /\ llmAttempt' = llmAttempt + 1
    /\ IF LoopOver(llmAttempt + 1)
       THEN llmResult' = llmContext /\ llmPc' = "returned"
       ELSE UNCHANGED <<llmResult, llmPc>>
    /\ UNCHANGED <<llmStage, llmSite, llmContext, siteValue, entity_cache,
                   cleanVars, doseVars, buildVars, postVars,
                   batchVars, fnVars, workerVars>>

\* the body has no choices[0].message.content: KeyError, not caught
PostMalformed ==
    /\ llmStage = "post" /\ llmPc = "try"
    /\ llmTrace' = llmTrace \o <<Request, Outcome("malformed")>>
    /\ llmPc' = "raised"
    /\ UNCHANGED <<llmStage, llmSite, llmContext, llmAttempt, llmResult, siteValue,
                   entity_cache, cleanVars, doseVars, buildVars, postVars,
                   batchVars, fnVars, workerVars>>

LLMAttempt ==
    \/ ExtractOk \/ ExtractTimeout \/ ExtractRequestError \/ ExtractMalformed
    \/ PostOk \/ PostRequestError \/ PostMalformed

\* a value that Python takes as true
Truthy(v) == v # None /\ v # <<>>

NoSpecialStorage == <<"N","o"," ","s","p","e","c","i","a","l"," ","s","t","o","r","a","g","e">>
DrugNameNotFound == <<"D","r","u","g"," ","n","a","m","e"," ","n","o","t"," ","f","o","u","n","d">>
NoResponseTimeout == <<"[No response due to API timeout]">>

\* split_list_values(values): values.strip("[]").replace("'", ""), split on ","
RECURSIVE StripChars(_, _)
StripChars(s, C) ==
    IF s # <<>> /\ Head(s) \in C THEN StripChars(Tail(s), C)
    ELSE IF s # <<>> /\ s[Len(s)] \in C THEN StripChars(Slice(s, 1, Len(s) - 1), C)
    ELSE s

split_list_values(values) ==
    StripAll(Split(Replace(StripChars(values, {"[", "]"}), <<"'">>, <<>>), ","))

\* the value each call site of query_model makes of the result
SiteValue(site, result) ==
    CASE site = "name" -> IF Truthy(result) THEN result ELSE DrugNameNotFound
      [] site = "question" -> IF result = None THEN NoResponseTimeout ELSE result
      [] site = "storage" -> IF Truthy(result) THEN Strip(result) ELSE NoSpecialStorage
      [] site = "dosage" -> IF Truthy(result) THEN Split(result, "\n") ELSE <<>>
      [] site \in {"shape", "colour"} ->
            IF Truthy(result) THEN split_list_values(result) ELSE <<>>
      [] OTHER -> result

\* the caller takes the result (process_pdfs and its extract_* helpers,
\* shorten_entity)
SiteReturn ==
    /\ llmPc = "returned"
    /\ siteValue' = SiteValue(llmSite, llmResult)
    /\ llmPc' = "done"
    /\ UNCHANGED <<llmStage, llmSite, llmContext, llmAttempt, llmResult, llmTrace,
                   entity_cache, cleanVars, doseVars, buildVars, postVars,
                   batchVars, fnVars, workerVars>>

\* one call of query_model from each call site
LongEntity == << "h","i","g","h"," ","b","l","o","o","d"," ","p","r","e","s","s","u","r","e",
                 " ","h","e","a","d","a","c","h","e"," ","p","a","i","n" >>

CallSites ==
    { <<"extract", "name">>, <<"extract", "question">>, <<"extract", "storage">>,
      <<"extract", "dosage">>, <<"extract", "shape">>, <<"extract", "colour">>,
      <<"post", "shorten">> }

LLMStart(stage, site, context) ==
    /\ llmStage = stage /\ llmSite = site /\ llmContext = context
    /\ llmAttempt = 0 /\ llmPc = "try" /\ llmResult = <<>> /\ llmTrace = <<>>
    /\ siteValue = <<>>

LLMInit == \E c \in CallSites : LLMStart(c[1], c[2], LongEntity)

InitLLM == LLMInit /\ CleanIdle /\ DoseIdle /\ BuildIdle /\ PostIdle /\ BatchIdle /\ FnIdle /\ WorkerIdle
NextLLM == LLMAttempt \/ SiteReturn
SpecLLM == InitLLM /\ [][NextLLM]_vars

(***************************************************************************)
(* postprocess_kg.py, phase 2: shorten long entities                       *)
(***************************************************************************)
columns_to_clean == <<"Subject", "Object">>
word_threshold == 3

\* len(entity.split())
WordCount(entity) ==
    Cardinality({ i \in 1..Len(entity) :
        /\ entity[i] \notin Whitespace
        /\ (i = 1 \/ entity[i - 1] \in Whitespace) })

\* row[col_name]
Cell(table, r, c) == table[r][c]

\* df[col] = the values df.apply returned
AssignColumn(table, c, values) ==
    [r \in DOMAIN table |-> [table[r] EXCEPT ![c] = values[r]]]

\* shorten_entity returned value for the row: df.apply goes to the next row;
\* after the last row the column is assigned and the next column starts;
\* after the last column df.to_csv writes the table
ApplyStep(value) ==
    IF row_name < Len(post_df)
    THEN /\ applied' = Append(applied, value)
         /\ row_name' = row_name + 1
         /\ postPc' = "apply"
         /\ UNCHANGED <<post_df, col>>
    ELSE /\ post_df' = AssignColumn(post_df, col, Append(applied, value))
         /\ applied' = <<>>
         /\ row_name' = 1
         /\ col' = col + 1
         /\ postPc' = IF col < Len(columns_to_clean) THEN "apply" ELSE "written"

LogEntry(entity, c, how, ok, value) ==
    [entity |-> entity, col |-> c, how |-> how, ok |-> ok, value |-> value]

\* shorten_entity: "if entity in entity_cache: return entity_cache[entity]"
ShortenCached ==
    /\ postPc = "apply"
    /\ Cell(post_df, row_name, col) \in DOMAIN entity_cache
    /\ ApplyStep(entity_cache[Cell(post_df, row_name, col)])
    /\ postLog' = Append(postLog, LogEntry(Cell(post_df, row_name, col), col, "cached", TRUE,
                                           entity_cache[Cell(post_df, row_name, col)]))
    /\ UNCHANGED <<entity_cache, llmVars, cleanVars, doseVars, buildVars, batchVars, fnVars, workerVars>>

\* shorten_entity: more than word_threshold words: "return query_model(entity, question)"
ShortenQuery ==
    /\ postPc = "apply"
    /\ Cell(post_df, row_name, col) \notin DOMAIN entity_cache
    /\ WordCount(Cell(post_df, row_name, col)) > word_threshold
    /\ llmStage' = "post" /\ llmSite' = "shorten"
    /\ llmContext' = Cell(post_df, row_name, col)
    /\ llmAttempt' = 0 /\ llmPc' = "try" /\ llmResult' = <<>> /\ llmTrace' = <<>>
    /\ postPc' = "call"
    /\ UNCHANGED <<siteValue, entity_cache, post_df, col, row_name, applied, postLog,
                   cleanVars, doseVars, buildVars, batchVars, fnVars, workerVars>>

\* shorten_entity: "return entity"
ShortenKeep ==
    /\ postPc = "apply"
    /\ Cell(post_df, row_name, col) \notin DOMAIN entity_cache
    /\ WordCount(Cell(post_df, row_name, col)) <= word_threshold
    /\ ApplyStep(Cell(post_df, row_name, col))
    /\ UNCHANGED <<postLog, entity_cache, llmVars, cleanVars, doseVars, buildVars, batchVars, fnVars, workerVars>>

\* query_model returned to shorten_entity
ShortenReturn ==
    /\ postPc = "call" /\ llmPc = "returned"
    /\ ApplyStep(llmResult)
    /\ postLog' = Append(postLog, LogEntry(llmContext, col, "query",
                                           llmTrace[Len(llmTrace)].ev = "ok", llmResult))
    /\ llmPc' = "done"
    /\ siteValue' = llmResult
    /\ UNCHANGED <<llmStage, llmSite, llmContext, llmAttempt, llmResult, llmTrace,
                   entity_cache, cleanVars, doseVars, buildVars, batchVars, fnVars, workerVars>>

\* an exception left query_model: the script ends before df.to_csv
PostCrash ==
    /\ postPc = "call" /\ llmPc = "raised"
    /\ postPc' = "crashed"
    /\ UNCHANGED <<post_df, col, row_name, applied, postLog, llmVars, entity_cache,
                   cleanVars, doseVars, buildVars, batchVars, fnVars, workerVars>>

MaxPostRows == 2
PostSubjects == { Aspirin, LongEntity }
PostObjects == { Nausea, LongEntity }
PostTables ==
    UNION { [1..n -> PostSubjects \X PostObjects] : n \in 1..MaxPostRows }

PostInit ==
    /\ post_df \in PostTables
    /\ entity_cache = <<>> /\ col = 1 /\ row_name = 1 /\ applied = <<>>
    /\ postPc = "apply" /\ postLog = <<>>

InitPost == PostInit /\ LLMIdle /\ CleanIdle /\ DoseIdle /\ BuildIdle /\ BatchIdle /\ FnIdle /\ WorkerIdle
NextPost ==
    \/ ShortenCached \/ ShortenQuery \/ ShortenKeep \/ ShortenReturn \/ PostCrash
    \/ PostOk \/ PostRequestError \/ PostMalformed
SpecPost == InitPost /\ [][NextPost]_vars

(***************************************************************************)
(* scripts/extract_information.py: process_pdfs                            *)
(***************************************************************************)
QAskName == "What is the name of the drug/medicine? Provide only the name."
QStorageRaw == "Extract the storage conditions as a paragraph."
QDosageRaw == "Extract dosage instructions as a paragraph."
QAppearanceRaw == "Extract how the drug looks as a paragraph."

questions ==
    << <<"HAS_NAME", QAskName>>,
       <<"HAS_SIDE_EFFECT", QSideEffect>>,
       <<"HAS_ACTIVE_INGREDIENT", QActive>>,
       <<"HAS_INACTIVE_INGREDIENT", QInactive>>,
       <<"HAS_CONTRAINDICATION", QContra>>,
       <<"HAS_WARNING", QWarning>>,
       <<"HAS_STORAGE_INFO", QStorageRaw>>,
       <<"HAS_DOSAGE_INFO", QDosageRaw>>,
       <<"HAS_APPEARANCE", QAppearanceRaw>> >>

NoResponse == <<"[No response]">>

\* a check that never finds a file processed
is_already_processed_Never(filename, txt) == FALSE

\* is_already_processed: the marker text occurs somewhere in the file
is_already_processed(filename, txt) ==
    \E j \in DOMAIN txt : Contains(txt[j], MarkerLine(filename))

\* f"A: {x if x else '[No response]'}"
OrNoResponse(x) == IF x = <<>> THEN NoResponse ELSE x

\* ', '.join(values)
RECURSIVE Join(_)
Join(values) ==
    IF values = <<>> THEN <<>>
    ELSE IF Len(values) = 1 THEN values[1]
    ELSE values[1] \o <<",", " ">> \o Join(Tail(values))

\* the lines "- {dosage}" of a dosage list
Bullets(dosage_list) == [k \in DOMAIN dosage_list |-> BulletPrefix \o dosage_list[k]]

\* what the LLM answers to each question when it answers
LeafletAnswer == <<"t","e","x","t">>
StorageAnswer == <<" ","2"," ","-"," ","8"," ","d","e","g","r","e","e","s"," ">>
DosageAnswer == <<"A","d","u","l","t","s"," ","-"," ","6","0"," ","m","g","\n","C","h","i","l","d","r","e","n"," ","-"," ","5"," ","m","g">>
ShapeAnswer == <<"r","o","u","n","d">>
ColourAnswer == <<"w","h","i","t","e",","," ","r","e","d">>

\* the lines written for the storage refinement
StorageLines(refined) ==
    << QLine(QStorage), ALine(OrNoResponse(SiteValue("storage", refined))), <<>> >>

\* the lines written for the dosage refinement
DosageBlock(dosage_list) ==
    IF dosage_list = <<>> THEN << QLine(QDosage), ALine(NoResponse), <<>> >>
    ELSE << QLine(QDosage), <<"A", ":">> >> \o Bullets(dosage_list) \o << <<>> >>

\* the lines written for the two appearance refinements
AppearanceLines(shape, color) ==
    << QLine(QShape), ALine(OrNoResponse(Join(SiteValue("shape", shape)))), <<>>,
       QLine(QColour), ALine(OrNoResponse(Join(SiteValue("colour", color)))), <<>> >>

\* the lines one iteration of the question loop writes: answer is the result
\* of query_model for the question, r1 and r2 the results of the refinements
QuestionLines(predicate, question, answer, r1, r2) ==
    IF answer = None THEN << QLine(question), ALine(NoResponseTimeout), <<>> >>
    ELSE << QLine(question), ALine(answer), <<>> >> \o
         ( CASE predicate = "HAS_STORAGE_INFO" -> StorageLines(r1)
             [] predicate = "HAS_DOSAGE_INFO" -> DosageBlock(SiteValue("dosage", r1))
             [] predicate = "HAS_APPEARANCE" -> AppearanceLines(r1, r2)
             [] OTHER -> <<>> )

\* the query_model calls one iteration makes
CallsMade(predicate, answer) ==
    IF answer = None THEN 1
    ELSE CASE predicate \in {"HAS_STORAGE_INFO", "HAS_DOSAGE_INFO"} -> 2
           [] predicate = "HAS_APPEARANCE" -> 3
           [] OTHER -> 1

FirstRefinement(predicate) ==
    CASE predicate = "HAS_STORAGE_INFO" -> StorageAnswer
      [] predicate = "HAS_DOSAGE_INFO" -> DosageAnswer
      [] predicate = "HAS_APPEARANCE" -> ShapeAnswer
      [] OTHER -> <<>>

MaxRuns == 2
MaxLLMFailures == 1

\* the results query_model can return for a call: the answer, or None while
\* the run may still fail a call
Results(answer, failures) ==
    {answer} \cup (IF failures < MaxLLMFailures THEN {None} ELSE {})

Failed(result) == IF result = None THEN 1 ELSE 0

\* "if is_already_processed(filename): continue"
SkipProcessed ==
    /\ batchPc = "file" /\ file_ix <= Len(pdf_dir)
    /\ is_already_processed(pdf_dir[file_ix], output_txt)
    /\ skipped' = skipped \cup {pdf_dir[file_ix]}
    /\ file_ix' = file_ix + 1
    /\ UNCHANGED <<attempts, marked, asked, pdf_dir, output_txt, batchPc, question_ix, run_no, llm_failures,
                   interrupted, cleanVars, doseVars, buildVars, llmVars, entity_cache,
                   postVars, fnVars, workerVars>>

\* the ways extract_text_from_pdf gives no text: the worker reports an error,
\* the extracted text is empty, the worker is terminated at the timeout
ExtractionFailures == {"error", "empty", "timeout"}

MaxExtractionFailures == 1

\* the extractions that have failed so far
FailuresSoFar(log) ==
    Cardinality({ k \in DOMAIN log : log[k][3] \in ExtractionFailures })

\* a failure handler that stays at the file
AfterFailure_Retry(ix) == ix

\* "except Exception as e: ... continue": the loop goes to the next filename
AfterFailure(ix) == ix + 1

\* extract_text_from_pdf gives no text (error, empty text or timeout):
\* "continue" with the next file
ExtractionFails ==
    /\ batchPc = "file" /\ file_ix <= Len(pdf_dir)
    /\ ~is_already_processed(pdf_dir[file_ix], output_txt)
    /\ FailuresSoFar(attempts) < MaxExtractionFailures
    /\ file_ix' = AfterFailure(file_ix)
    /\ \E outcome \in ExtractionFailures :
        attempts' = Append(attempts, <<run_no, file_ix, outcome>>)
    /\ UNCHANGED <<marked, asked, pdf_dir, output_txt, batchPc, question_ix, run_no, llm_failures,
                   skipped, interrupted, cleanVars, doseVars, buildVars, llmVars,
                   entity_cache, postVars, fnVars, workerVars>>

\* the text is extracted: the block marker is written
WriteMarker ==
    /\ batchPc = "file" /\ file_ix <= Len(pdf_dir)
    /\ ~is_already_processed(pdf_dir[file_ix], output_txt)
    /\ output_txt' = output_txt \o
            << <<Rule>>, MarkerLine(pdf_dir[file_ix]), <<Rule>>, <<>> >>
    /\ batchPc' = "name"
    /\ attempts' = Append(attempts, <<run_no, file_ix, "text">>)
    /\ marked' = marked \cup {<<run_no, pdf_dir[file_ix]>>}
    /\ UNCHANGED <<asked, pdf_dir, file_ix, question_ix, run_no, llm_failures, skipped,
                   interrupted, cleanVars, doseVars, buildVars, llmVars, entity_cache,
                   postVars, fnVars, workerVars>>

\* the name question: query_model(...) or "Drug name not found"
AskName ==
    /\ batchPc = "name"
    /\ \E drug_name \in Results(Aspirin, llm_failures) :
        /\ output_txt' = output_txt \o
                << QLine(QName), ALine(SiteValue("name", drug_name)), <<>> >>
        /\ llm_failures' = llm_failures + Failed(drug_name)
    /\ batchPc' = "question"
    /\ question_ix' = 1
    /\ asked' = asked \cup {<<run_no, pdf_dir[file_ix]>>}
    /\ UNCHANGED <<attempts, marked, pdf_dir, file_ix, run_no, skipped, interrupted, cleanVars, doseVars,
                   buildVars, llmVars, entity_cache, postVars, fnVars, workerVars>>

\* "if predicate == 'HAS_NAME': continue"
SkipNameQuestion ==
    /\ batchPc = "question" /\ question_ix <= Len(questions)
    /\ questions[question_ix][1] = "HAS_NAME"
    /\ question_ix' = question_ix + 1
    /\ UNCHANGED <<attempts, marked, asked, pdf_dir, output_txt, batchPc, file_ix, run_no, llm_failures, skipped,
                   interrupted, cleanVars, doseVars, buildVars, llmVars, entity_cache,
                   postVars, fnVars, workerVars>>

\* one iteration of "for _, predicate, question in questions"
AskQuestion ==
    /\ batchPc = "question" /\ question_ix <= Len(questions)
    /\ questions[question_ix][1] # "HAS_NAME"
    /\ \E answer \in Results(LeafletAnswer, llm_failures) :
       \E r1 \in Results(FirstRefinement(questions[question_ix][1]), llm_failures) :
       \E r2 \in Results(ColourAnswer, llm_failures + Failed(r1)) :
        /\ CallsMade(questions[question_ix][1], answer) < 2 => r1 # None
        /\ CallsMade(questions[question_ix][1], answer) < 3 => r2 # None
        /\ output_txt' = output_txt \o
                QuestionLines(questions[question_ix][1], questions[question_ix][2],
                              answer, r1, r2)
        /\ llm_failures' = llm_failures + Failed(answer) + Failed(r1) + Failed(r2)
    /\ question_ix' = question_ix + 1
    /\ asked' = asked \cup {<<run_no, pdf_dir[file_ix]>>}
    /\ UNCHANGED <<attempts, marked, pdf_dir, batchPc, file_ix, run_no, skipped, interrupted, cleanVars,
                   doseVars, buildVars, llmVars, entity_cache, postVars, fnVars, workerVars>>

\* after the last question: txtfile.write("\n\n"), time.sleep(5), next file
EndDocument ==
    /\ batchPc = "question" /\ question_ix > Len(questions)
    /\ output_txt' = output_txt \o << <<>>, <<>> >>
    /\ batchPc' = "file"
    /\ file_ix' = file_ix + 1
    /\ UNCHANGED <<attempts, marked, asked, pdf_dir, question_ix, run_no, llm_failures, skipped, interrupted,
                   cleanVars, doseVars, buildVars, llmVars, entity_cache, postVars, fnVars, workerVars>>

\* the list is exhausted: the file is closed and the counts are logged
FinishRun ==
    /\ batchPc = "file" /\ file_ix > Len(pdf_dir)
    /\ batchPc' = "finished"
    /\ UNCHANGED <<attempts, marked, asked, pdf_dir, output_txt, file_ix, question_ix, run_no, llm_failures,
                   skipped, interrupted, cleanVars, doseVars, buildVars, llmVars,
                   entity_cache, postVars, fnVars, workerVars>>

\* a process-level interrupt aborts the batch; leaving the with block closes
\* the file, so what was written is in the transcript
Interrupt ==
    /\ batchPc \in {"file", "name", "question"}
    /\ batchPc' = "stopped"
    /\ interrupted' = IF batchPc \in {"name", "question"}
                      THEN interrupted \cup {pdf_dir[file_ix]} ELSE interrupted
    /\ UNCHANGED <<attempts, marked, asked, pdf_dir, output_txt, file_ix, question_ix, run_no, llm_failures,
                   skipped, cleanVars, doseVars, buildVars, llmVars, entity_cache,
                   postVars, fnVars, workerVars>>

\* the command is run again over the same directory and transcript
StartRun ==
    /\ batchPc \in {"finished", "stopped"} /\ run_no < MaxRuns
    /\ run_no' = run_no + 1
    /\ batchPc' = "file"
    /\ file_ix' = 1
    /\ UNCHANGED <<attempts, marked, asked, pdf_dir, output_txt, question_ix, llm_failures, skipped, interrupted,
                   cleanVars, doseVars, buildVars, llmVars, entity_cache, postVars, fnVars, workerVars>>

BatchInit ==
    /\ pdf_dir \in { <<PdfA>>, <<PdfA, PdfB>> }
    /\ output_txt = <<>> /\ batchPc = "file" /\ file_ix = 1 /\ question_ix = 0
    /\ run_no = 1 /\ llm_failures = 0 /\ skipped = {} /\ interrupted = {}
    /\ attempts = <<>> /\ marked = {} /\ asked = {}

InitBatch == BatchInit /\ CleanIdle /\ DoseIdle /\ BuildIdle /\ LLMIdle /\ PostIdle /\ FnIdle /\ WorkerIdle
NextBatch ==
    \/ SkipProcessed \/ ExtractionFails \/ WriteMarker \/ AskName \/ SkipNameQuestion
    \/ AskQuestion \/ EndDocument \/ FinishRun \/ Interrupt \/ StartRun
SpecBatch == InitBatch /\ [][NextBatch]_vars

\* the events of a kind in the history of the call
EventsOf(trace, kinds) == { i \in 1..Len(trace) : trace[i].ev \in kinds }
TransportFailures == {"timeout", "error"}
AllAttemptsFailed == Cardinality(EventsOf(llmTrace, TransportFailures)) = retries

\* the fallback the specification defines for a call site
FallbackHolds ==
    CASE llmSite = "storage" -> siteValue = NoSpecialStorage
      [] llmSite = "dosage" -> siteValue = <<>>
      [] llmSite = "shorten" -> siteValue = llmContext
      [] OTHER -> TRUE

\* C7: every LLM call sends at most 3 requests, sends none after the first
\* successful response, and when all attempts fail with a timeout or another
\* request failure it returns instead of raising; the call site then has its
\* fallback: "No special storage" (storage classification), the empty list
\* (dosage categorisation), the original entity text (entity shortening).
C7_BoundedRetryAndFallback ==
    /\ Cardinality(EventsOf(llmTrace, {"request"})) <= retries
    /\ \A i \in EventsOf(llmTrace, {"ok"}) : \A j \in EventsOf(llmTrace, {"request"}) : j < i
    /\ EventsOf(llmTrace, {"ok"}) # {} => llmPc \in {"returned", "done"}
    /\ AllAttemptsFailed => llmPc \in {"returned", "done"}
    /\ llmPc = "raised" => EventsOf(llmTrace, {"malformed"}) # {}
    /\ (AllAttemptsFailed /\ llmPc = "done") => FallbackHolds

\* a storage classification whose three attempts failed, by a timeout and by
\* another request failure, has returned its fallback
C7_Witness ==
    /\ llmPc = "done" /\ llmSite = "storage" /\ AllAttemptsFailed
    /\ EventsOf(llmTrace, {"timeout"}) # {} /\ EventsOf(llmTrace, {"error"}) # {}
    /\ siteValue = NoSpecialStorage

\* C8: within one LLM call, between a failed attempt and the attempt that
\* follows it the call sleeps for the fixed delay.
C8_DelayBetweenAttempts ==
    \A i, j \in EventsOf(llmTrace, {"request"}) :
        i < j => \E k \in i..j : llmTrace[k] = SleepDelay

FullQuestions ==
    {QName} \cup { questions[k][2] : k \in {n \in DOMAIN questions : questions[n][1] # "HAS_NAME"} }

\* some block of the file in the transcript has every question line
BlockComplete(txt, filename) ==
    \E m \in DOMAIN txt :
        /\ txt[m] = MarkerLine(filename)
        /\ \A q \in FullQuestions : \E j \in m..BlockEnd(txt, m) : txt[j] = QLine(q)

\* C10: a document whose block was only partially written when the batch
\* was interrupted is reprocessed by a later run: no run skips a document
\* whose block lacks questions, and when a later run has finished, every
\* interrupted document has its full set of questions in the transcript.
C10_PartialBlockReprocessed ==
    /\ \A f \in skipped : BlockComplete(output_txt, f)
    /\ (batchPc = "finished" /\ run_no > 1) =>
            \A f \in interrupted : BlockComplete(output_txt, f)

\* the extractions that gave no text
FailedAttempts == { k \in DOMAIN attempts : attempts[k][3] \in ExtractionFailures }

\* C11: in one batch run a document whose text extraction fails, gives
\* empty text or times out is skipped and not retried: the run writes no
\* block marker and no Q/A line for it, makes no LLM call for it, extracts it
\* once only, and goes on behind it in the sorted list.
C11_FailedExtractionSkipped ==
    \A k \in FailedAttempts :
        /\ <<attempts[k][1], pdf_dir[attempts[k][2]]>> \notin marked
        /\ <<attempts[k][1], pdf_dir[attempts[k][2]]>> \notin asked
        /\ \A j \in DOMAIN attempts :
              (attempts[j][1] = attempts[k][1] /\ attempts[j][2] = attempts[k][2]) => j = k
        /\ attempts[k][1] = run_no => file_ix > attempts[k][2]
        /\ (\A r \in 1..run_no : <<r, pdf_dir[attempts[k][2]]>> \notin marked) =>
              \A j \in DOMAIN output_txt : ~Contains(output_txt[j], pdf_dir[attempts[k][2]])

\* the extraction of the first document timed out and the same run has put
\* questions about the second document to the LLM
C11_Witness ==
    /\ Len(pdf_dir) = 2
    /\ \E k \in FailedAttempts :
          attempts[k] = <<run_no, 1, "timeout">> /\ <<run_no, pdf_dir[2]>> \in asked
    /\ batchPc = "finished"

(***************************************************************************)
(* build_kg_csv.py on transcripts of one question, with question texts     *)
(* that are and are not keys of relationship_mappings                      *)
(***************************************************************************)
\* question lines: the ten keys; the name question as extract_information
\* asks it; a key with a word after it; a question that is no key
QuestionLinePool ==
    { QLine(relationship_mappings[k][1]) : k \in DOMAIN relationship_mappings }
    \cup { QPrefix \o <<QName, " ", "Provide only the name.">>,
           QPrefix \o <<QShape, " ", "and size">>,
           QLine(QStorageRaw) }

\* answer lines; "A:" is the line process_pdfs writes before a dosage list
QuestionAnswerPool == { ALine(Aspirin), ALine(<<"r","e","d",","," ","b","l","u","e",","," ","r","e","d">>), <<"A", ":">> }

QuestionInit ==
    /\ \E q \in QuestionLinePool : \E a \in QuestionAnswerPool :
          lines = << MarkerLine(PdfA), q, a, BulletPrefix \o <<"6","0"," ","m","g">> >>
    /\ medical_terms = << Nausea, Headache >>
    /\ ner_ents = { Nausea }
    /\ near_score = 86
    /\ BuildStart

InitQuestion == QuestionInit /\ CleanIdle /\ DoseIdle /\ LLMIdle /\ PostIdle /\ BatchIdle /\ FnIdle /\ WorkerIdle
SpecQuestion == InitQuestion /\ [][NextBuild]_vars

\* C12: every triple comes from a question line whose text is exactly a
\* key of relationship_mappings and carries the predicate of that key: a
\* question line with another text produces no triple, one with a key
\* produces triples of that one predicate.
C12_OnlyCanonicalQuestions ==
    \A k \in DOMAIN data :
        \E m \in DOMAIN relationship_mappings :
            /\ Strip(lines[origin[k]]) = QLine(relationship_mappings[m][1])
            /\ data[k].Predicate = <<relationship_mappings[m][2]>>

\* the row written for row k of data, and the place it was first produced
WrittenRow(k) == to_csv(<<data[k]>>)[1]
FirstProduced(row) ==
    CHOOSE k \in DOMAIN data : WrittenRow(k) = row /\ \A j \in 1..(k - 1) : WrittenRow(j) # row

\* C13: the written table holds every distinct (subject, predicate, object)
\* that was produced exactly once, in the order of first occurrence.
C13_DistinctInFirstOrder ==
    buildPc = "done" =>
        /\ \A i, j \in DOMAIN csv_out : csv_out[i] = csv_out[j] => i = j
        /\ \A k \in DOMAIN data : \E i \in DOMAIN csv_out : csv_out[i] = WrittenRow(k)
        /\ \A i \in DOMAIN csv_out : \E k \in DOMAIN data : csv_out[i] = WrittenRow(k)
        /\ \A i, j \in DOMAIN csv_out :
              i < j => FirstProduced(csv_out[i]) < FirstProduced(csv_out[j])

\* a triple produced twice, with another one between, is written once and
\* before the other
C13_Witness ==
    /\ buildPc = "done"
    /\ Len(data) = 3 /\ data[1] = data[3] /\ data[1] # data[2]
    /\ csv_out = <<WrittenRow(1), WrittenRow(2)>>

\* the bullet lines of question q, in order: those of its own lines that
\* start with "- ", without that prefix
OwnBullets(ls, q) ==
    LET F[j \in q..BlockEnd(ls, q)] ==
            IF j = q THEN <<>>
            ELSE IF j \in OwnLines(ls, q) /\ StartsWith(Strip(ls[j]), BulletPrefix)
                 THEN Append(F[j - 1], Strip(Slice(Strip(ls[j]), 3, Len(Strip(ls[j])))))
                 ELSE F[j - 1]
    IN F[BlockEnd(ls, q)]

\* the objects of the rows that line q appended, in order
ObjectsFrom(q) ==
    LET F[k \in 0..Len(data)] ==
            IF k = 0 THEN <<>>
            ELSE IF origin[k] = q THEN Append(F[k - 1], data[k].Object) ELSE F[k - 1]
    IN F[Len(data)]

\* C14: for a dosage question followed by a bulleted list, the triples of
\* the question are HAS_DOSAGE_INFO triples whose objects are the values
\* extracted from exactly the bullet lines between the question and the next
\* question line or the end of the block.
C14_DosageFromOwnBullets ==
    buildPc = "done" =>
        \A q \in DOMAIN lines :
            (Strip(lines[q]) = QLine(QDosage) /\ BlockStart(lines, q) > 0
                /\ OwnBullets(lines, q) # <<>>)
            => /\ ObjectsFrom(q) = extract_dosage_values(OwnBullets(lines, q))
               /\ \A k \in DOMAIN data :
                     origin[k] = q => data[k].Predicate = <<"HAS_DOSAGE_INFO">>

(***************************************************************************)
(* clean_kg.py: clean_specials applied to texts of its own                 *)
(***************************************************************************)
MaxTextLen == 3
MaxApply == 2

\* the last value of the run
Last(vals) == vals[Len(vals)]

SpecialsAlphabet == {"a", "9", "é", "-", " "}
SpecialsTexts == UNION { [1..n -> SpecialsAlphabet] : n \in 0..MaxTextLen }

\* df[...].apply(clean_specials) on one value
ApplyCleanSpecials ==
    /\ fn = "clean_specials" /\ Len(fn_vals) <= MaxApply
    /\ fn_vals' = Append(fn_vals, clean_specials(Last(fn_vals)))
    /\ UNCHANGED <<fn, cleanVars, doseVars, buildVars, llmVars, entity_cache, postVars,
                   batchVars, workerVars>>

SpecialsInit == fn = "clean_specials" /\ \E t \in SpecialsTexts : fn_vals = <<t>>
InitSpecials ==
    SpecialsInit /\ CleanIdle /\ DoseIdle /\ BuildIdle /\ LLMIdle /\ PostIdle /\ BatchIdle /\ WorkerIdle
SpecSpecials == InitSpecials /\ [][ApplyCleanSpecials]_vars

\* alphanumeric under a Unicode-aware test: letters and digits of any script
UnicodeAlnum == AsciiAlnum \cup UnicodeLetters

\* the text without its leading and trailing characters that are not
\* alphanumeric under that test
TrimNonAlnum(t) ==
    LET keep == { i \in DOMAIN t : t[i] \in UnicodeAlnum }
    IN IF keep = {} THEN <<>>
       ELSE Slice(t, CHOOSE i \in keep : \A j \in keep : i <= j,
                     CHOOSE i \in keep : \A j \in keep : i >= j)

\* C15: the special-character step removes exactly the leading and
\* trailing characters that are not letters or digits of any script, and
\* leaves the rest of the text as it is.
C15_UnicodeAwareTrim ==
    Len(fn_vals) >= 2 => fn_vals[2] = TrimNonAlnum(fn_vals[1])

(***************************************************************************)
(* scripts/build_kg_csv.py: the normalization steps applied to values of   *)
(* their own, and again to what they return                                *)
(***************************************************************************)
BadNausa == <<"b","a","d"," ","n","a","u","s","a">>
BadNausea == <<"b","a","d"," ","n","a","u","s","e","a">>

NormTerms ==
    { Nausea, <<"n","a","u","s","a">>, <<"H","e","a","d","a","c","h","e","s">>,
      BadNausa, BadNausea, <<"-">> }
NormVocabularies == UNION {[1..n -> VocabPool \cup {BadNausea}] : n \in 0..MaxVocab}

NormDosageTexts ==
    DoseLinePool \cup
        { <<"2"," ","K","i","l","o","g","r","a","m">>,
          <<"1"," ","l","i","t","r","e"," ","o","f"," ","g","r","a","m">>,
          <<"3"," ","m","i","c","r","o","g","r","a","m",","," ","4"," ","n","a","n","o","g","r","a","m">> }

\* the vocabulary, the recognizer and the scorer of a run of its own
NormEnv(terms, ents, near) ==
    /\ lines = <<>> /\ lineNo = 0 /\ current_pdf = <<>> /\ drug_name_mapping = <<>>
    /\ data = <<>> /\ origin = <<>> /\ csv_out = <<>> /\ buildPc = "idle"
    /\ medical_terms = terms /\ ner_ents = ents /\ near_score = near

\* standardize_dosage(value)
ApplyStandardizeDosage ==
    /\ fn = "standardize_dosage" /\ Len(fn_vals) <= MaxApply
    /\ fn_vals' = Append(fn_vals, standardize_dosage(Last(fn_vals)))
    /\ UNCHANGED <<fn, cleanVars, doseVars, buildVars, llmVars, entity_cache, postVars,
                   batchVars, workerVars>>

\* extract_dosage_values(value)
ApplyExtractDosageValues ==
    /\ fn = "extract_dosage_values" /\ Len(fn_vals) <= MaxApply
    /\ fn_vals' = Append(fn_vals, extract_dosage_values(Last(fn_vals)))
    /\ UNCHANGED <<fn, cleanVars, doseVars, buildVars, llmVars, entity_cache, postVars,
                   batchVars, workerVars>>

\* fuzzy_match_entity(value); a call that raised returns nothing to go on with
ApplyFuzzyMatch ==
    /\ fn = "fuzzy_match_entity" /\ Len(fn_vals) <= MaxApply
    /\ Last(fn_vals) # Undefined
    /\ fn_vals' = Append(fn_vals, fuzzy_match_entity(Last(fn_vals), medical_terms, near_score))
    /\ UNCHANGED <<fn, cleanVars, doseVars, buildVars, llmVars, entity_cache, postVars,
                   batchVars, workerVars>>

\* fuzzy_match_entity(lemmatize_entity(normalize_medical_entity(value))), the
\* chain of the list predicates
ApplyNormalizeTerm ==
    /\ fn = "normalize_term" /\ Len(fn_vals) <= MaxApply
    /\ Last(fn_vals) # Undefined
    /\ fn_vals' = Append(fn_vals,
                         NormalizeTerm(Last(fn_vals), medical_terms, ner_ents, near_score))
    /\ UNCHANGED <<fn, cleanVars, doseVars, buildVars, llmVars, entity_cache, postVars,
                   batchVars, workerVars>>

NormInit ==
    \/ /\ fn = "standardize_dosage"
       /\ \E t \in NormDosageTexts : fn_vals = <<t>>
       /\ NormEnv(<<>>, {}, 0)
    \/ /\ fn = "extract_dosage_values"
       /\ \E dl \in DoseLists : fn_vals = <<dl>>
       /\ NormEnv(<<>>, {}, 0)
    \/ /\ fn \in {"fuzzy_match_entity", "normalize_term"}
       /\ \E t \in NormTerms : fn_vals = <<t>>
       /\ \E terms \in NormVocabularies, ents \in SUBSET {Nausea, Headache}, near \in {85, 86} :
             NormEnv(terms, ents, near)

InitNorm == NormInit /\ CleanIdle /\ DoseIdle /\ LLMIdle /\ PostIdle /\ BatchIdle /\ WorkerIdle
NextNorm ==
    \/ ApplyStandardizeDosage
    \/ ApplyExtractDosageValues
    \/ ApplyFuzzyMatch
    \/ ApplyNormalizeTerm
SpecNorm == InitNorm /\ [][NextNorm]_vars

C16_SingleStepsIdempotent ==
    (fn # "normalize_term" /\ Len(fn_vals) >= 3) => fn_vals[3] = fn_vals[2]

\* the scores of the vocabulary against a term, the best of them, and the
\* closest entry: the first entry of the best score
ScoresOf(term) == {WRatio(term, medical_terms[k], near_score) : k \in DOMAIN medical_terms}
TopScore(term) == CHOOSE x \in ScoresOf(term) : \A y \in ScoresOf(term) : y <= x
Closest(term) ==
    medical_terms[CHOOSE k \in DOMAIN medical_terms :
        /\ WRatio(term, medical_terms[k], near_score) = TopScore(term)
        /\ \A n \in 1..(k - 1) : WRatio(term, medical_terms[n], near_score) < TopScore(term)]

\* C17: fuzzy correction returns the closest vocabulary entry exactly when
\* its score is strictly greater than 85; a term whose best score is 85 or
\* less, 85 itself included, is returned unchanged.
C17_FuzzyThreshold ==
    (fn = "fuzzy_match_entity" /\ Len(fn_vals) >= 2 /\ medical_terms # <<>>) =>
        /\ TopScore(fn_vals[1]) > 85 => fn_vals[2] = Closest(fn_vals[1])
        /\ TopScore(fn_vals[1]) <= 85 => fn_vals[2] = fn_vals[1]

\* a term whose closest entry scores exactly 85 came back unchanged
C17_Witness ==
    /\ fn = "fuzzy_match_entity" /\ Len(fn_vals) >= 2 /\ medical_terms # <<>>
    /\ TopScore(fn_vals[1]) = 85
    /\ Closest(fn_vals[1]) # fn_vals[1]
    /\ fn_vals[2] = fn_vals[1]

\* a term whose closest entry scores 86 was replaced by another text
C17_WitnessReplaced ==
    /\ fn = "fuzzy_match_entity" /\ Len(fn_vals) >= 2 /\ medical_terms # <<>>
    /\ TopScore(fn_vals[1]) = 86
    /\ fn_vals[2] = Closest(fn_vals[1])
    /\ fn_vals[2] # fn_vals[1]

\* C18: in every table the cleaner produces, no row has a subject or an
\* object that begins, case-insensitively and at a word boundary, with a
\* placeholder phrase of the fixed list.
C18_NoPlaceholderRows ==
    \A k \in 2..Len(kgFiles) : \A i \in DOMAIN kgFiles[k] :
        /\ ~placeholder_start_pattern(kgFiles[k][i].Subject)
        /\ ~placeholder_start_pattern(kgFiles[k][i].Object)

(***************************************************************************)
(* scripts/extract_information.py: extract_text_from_pdf and its worker    *)
(*                                                                         *)
(* A text is a sequence of blocks.  multiprocessing.Queue.put leaves the   *)
(* message in the queue's buffer; the worker's feeder thread writes it to  *)
(* the pipe block by block, as far as the pipe has room, and the worker    *)
(* process exits only when the buffer is flushed.  Nothing reads the pipe  *)
(* before the parent's result_queue.get().  Time passes only while the     *)
(* worker extracts or is blocked on the pipe.                              *)
(***************************************************************************)
MaxTextSize == 3
PipeCapacity == 2
\* process.join(timeout), in ticks of the clock
timeout == 2

PdfHangs == <<"<hangs>">>
PdfRaises == <<"<raises>">>
TextBlocks == {"a", "b", " "}
PdfTexts == UNION { [1..n -> TextBlocks] : n \in 0..MaxTextSize }

\* f"ERROR: {e}", one block
ErrorMessage == <<"ERROR: ...">>

\* what extract_text_worker puts on the queue
WorkerMessage(text) ==
    IF text = PdfRaises \/ Strip(text) = <<>> THEN ErrorMessage ELSE text

\* extract_text_worker runs to its result_queue.put
WorkerPut ==
    /\ process = "running" /\ pdf_text # PdfHangs
    /\ result_queue' = [result_queue EXCEPT !.buffer = WorkerMessage(pdf_text)]
    /\ queued_at' = elapsed
    /\ process' = "flushing"
    /\ UNCHANGED <<pdf_text, elapsed, extractPc, extracted_text, cleanVars, doseVars,
                   buildVars, llmVars, entity_cache, postVars, batchVars, fnVars>>

\* the feeder thread writes the next block to the pipe
Feed ==
    /\ process = "flushing"
    /\ result_queue.buffer # <<>>
    /\ Len(result_queue.pipe) < PipeCapacity
    /\ result_queue' = [buffer |-> Tail(result_queue.buffer),
                        pipe |-> Append(result_queue.pipe, Head(result_queue.buffer))]
    /\ UNCHANGED <<pdf_text, process, elapsed, queued_at, extractPc, extracted_text,
                   cleanVars, doseVars, buildVars, llmVars, entity_cache, postVars,
                   batchVars, fnVars>>

\* the worker process exits once the feeder thread has flushed the buffer
WorkerExit ==
    /\ process = "flushing"
    /\ result_queue.buffer = <<>>
    /\ process' = "exited"
    /\ UNCHANGED <<pdf_text, result_queue, elapsed, queued_at, extractPc, extracted_text,
                   cleanVars, doseVars, buildVars, llmVars, entity_cache, postVars,
                   batchVars, fnVars>>

\* the worker cannot go on: the pipe is full and the buffer is not empty
Blocked ==
    /\ process = "flushing"
    /\ result_queue.buffer # <<>>
    /\ Len(result_queue.pipe) >= PipeCapacity

\* time passes in process.join(timeout)
Tick ==
    /\ extractPc = "join" /\ elapsed < timeout
    /\ process = "running" \/ Blocked
    /\ elapsed' = elapsed + 1
    /\ UNCHANGED <<pdf_text, process, result_queue, queued_at, extractPc, extracted_text,
                   cleanVars, doseVars, buildVars, llmVars, entity_cache, postVars,
                   batchVars, fnVars>>

\* process.join(timeout) returns: the worker has exited or the time is up
JoinReturns ==
    /\ extractPc = "join"
    /\ process = "exited" \/ elapsed = timeout
    /\ extractPc' = "is_alive"
    /\ UNCHANGED <<pdf_text, process, result_queue, elapsed, queued_at, extracted_text,
                   cleanVars, doseVars, buildVars, llmVars, entity_cache, postVars,
                   batchVars, fnVars>>

\* "if process.is_alive(): process.terminate(); process.join(); return None"
Terminate ==
    /\ extractPc = "is_alive"
    /\ process # "exited"
    /\ process' = "terminated"
    /\ extracted_text' = None
    /\ extractPc' = "returned"
    /\ UNCHANGED <<pdf_text, result_queue, elapsed, queued_at, cleanVars, doseVars,
                   buildVars, llmVars, entity_cache, postVars, batchVars, fnVars>>

\* "result_queue.get() if not result_queue.empty() else None", and None for a
\* message that starts with "ERROR:"
QueueGet(q) == IF q.pipe = <<>> THEN None ELSE q.pipe
ReturnOf(msg) ==
    IF msg # None /\ msg # <<>> /\ StartsWith(msg, ErrorMessage) THEN None ELSE msg

ReadQueue ==
    /\ extractPc = "is_alive"
    /\ process = "exited"
    /\ extracted_text' = ReturnOf(QueueGet(result_queue))
    /\ result_queue' = [result_queue EXCEPT !.pipe = <<>>]
    /\ extractPc' = "returned"
    /\ UNCHANGED <<pdf_text, process, elapsed, queued_at, cleanVars, doseVars, buildVars,
                   llmVars, entity_cache, postVars, batchVars, fnVars>>

\* after process.start()
WorkerInit ==
    /\ pdf_text \in PdfTexts \cup {PdfHangs, PdfRaises}
    /\ process = "running"
    /\ result_queue = [buffer |-> <<>>, pipe |-> <<>>]
    /\ elapsed = 0
    /\ queued_at = -1
    /\ extractPc = "join"
    /\ extracted_text = Undefined

InitWorker ==
    WorkerInit /\ CleanIdle /\ DoseIdle /\ BuildIdle /\ LLMIdle /\ PostIdle /\ BatchIdle /\ FnIdle
NextWorker ==
    \/ WorkerPut
    \/ Feed
    \/ WorkerExit
    \/ Tick
    \/ JoinReturns
    \/ Terminate
    \/ ReadQueue
SpecWorker == InitWorker /\ [][NextWorker]_vars

\* the worker obtained a non-empty text and queued it before the time was up
QueuedInTime ==
    /\ pdf_text \notin {PdfHangs, PdfRaises}
    /\ Strip(pdf_text) # <<>>
    /\ queued_at >= 0 /\ queued_at < timeout

\* C19: when the worker obtains a non-empty text before the timeout expires,
\* extract_text_from_pdf returns exactly that text, whatever its size.
C19_TimelyResultReturned ==
    (extractPc = "returned" /\ QueuedInTime) => extracted_text = pdf_text

\* C19 for the texts that fit the pipe
C19_SmallResultReturned ==
    (extractPc = "returned" /\ QueuedInTime /\ Len(pdf_text) <= PipeCapacity)
        => extracted_text = pdf_text

\* the marker lines of a filename in the transcript, and the runs that wrote
\* a marker for it
MarkerLinesOf(f) == {j \in DOMAIN output_txt : output_txt[j] = MarkerLine(f)}
MarkingRuns(f) == {r \in 1..run_no : <<r, f>> \in marked}

\* C20: over any sequence of batch runs, interrupted ones included, on the
\* same directory and the same append-only transcript, the transcript holds
\* at most one block marker per PDF filename, and no LLM call is made for a
\* PDF whose marker was in the transcript when the run came to it: the calls
\* for a file are all made in the one run that wrote its marker.
C20_OneMarkerNoRepeatCalls ==
    \A k \in DOMAIN pdf_dir :
        /\ Cardinality(MarkerLinesOf(pdf_dir[k])) <= 1
        /\ Cardinality(MarkingRuns(pdf_dir[k])) <= 1
        /\ \A r \in 1..run_no :
              <<r, pdf_dir[k]>> \in asked => MarkingRuns(pdf_dir[k]) = {r}

\* a second run has skipped a file whose block an interrupt of the first run
\* cut short, and has gone on to the end of the list
C20_Witness ==
    /\ run_no = 2 /\ batchPc = "finished"
    /\ PdfA \in interrupted /\ PdfA \in skipped
    /\ <<1, PdfA>> \in asked
    /\ Cardinality(MarkerLinesOf(PdfA)) = 1
    /\ Len(pdf_dir) = 2 /\ <<2, PdfB>> \in asked

====
